---- MODULE Spec2Model ----
(***************************************************************************)
(* Requirement / provider resolution and preparation of a project.         *)
(*                                                                         *)
(* Part 1 models src/project/plugins/requirement.py: RequirementStatus,     *)
(* Requirement and EnvVarRequirement, over an explicit Python heap (so     *)
(* that aliasing of the options mapping is visible) and explicit environ   *)
(* mappings.                                                               *)
(***************************************************************************)
EXTENDS Integers, Sequences, FiniteSets, TLC

VARIABLES
    heap,           \* Python dict objects: address -> (key -> value)
    optionsArg,     \* the `options` argument the caller gave the constructor
    optionsAtInit,  \* history: deep value of self.options right after __init__
    req,            \* the EnvVarRequirement: registry, env_var, options (an address)
    registered,     \* the PluginRegistry's providers, in registration order
    environ,        \* the explicit environ mapping handed to check_status
    os_environ,     \* the live process environment (os.environ)
    statuses,       \* the RequirementStatus objects the caller holds, oldest first
    calls,          \* history: calls[i] is the call that returned statuses[i]
    raised,         \* history: the calls of check_status that raised, oldest first
    pipe,           \* the preparation pipeline: its current stage and what it gathered
    ui,             \* the interactive server: its session, local state, events, stderr
    world,          \* outside the process: running services, fetched files, what providers did
    project,        \* a project directory's declarations, and what loading them gave
    cli,            \* one run of a command line: the operation's status, output, exit code
    fake_frontend,  \* a frontend's two channels: lines emitted, text still buffered
    loop            \* the event loop: requests sent, handlers and provide calls in progress

reqVars == <<heap, optionsArg, optionsAtInit, req, registered>>
envVars == <<environ, os_environ, statuses, calls, raised>>
vars == <<heap, optionsArg, optionsAtInit, req, registered,
          environ, os_environ, statuses, calls, raised, pipe, ui, world, project, cli,
          fake_frontend, loop>>
extVars == <<world, project, cli, fake_frontend, loop>>

---------------------------------------------------------------------------
(* Bounds of the model.                                                    *)

MaxStatuses == 2      \* status objects a caller holds at a time
MaxRegistered == 3    \* providers registered in a registry
MaxSteps == 6         \* stage executions counted in a pipeline run
MaxPosts == 1         \* POST requests a session receives
MaxProvides == 3      \* calls of provide in a row

---------------------------------------------------------------------------
(* Python values: <<type, text>>.  A "ref" value is the address of a dict.  *)

PyNone == <<"none", "">>
PyTrue == <<"bool", "True">>
PyFalse == <<"bool", "False">>
PyStr(s) == <<"str", s>>
PyInt(s) == <<"int", s>>
PyRef(a) == <<"ref", a>>

\* bool(x) of a Python bool computed by the interpreter (any(), ==, in)
PyBool(b) == IF b THEN PyTrue ELSE PyFalse

IsPyBool(v) == v[1] = "bool"

EmptyDict == [k \in {} |-> PyNone]

\* Python truth value testing (`if x:`)
Truthy(h, v) ==
    CASE v[1] = "none" -> FALSE
      [] v[1] = "bool" -> v[2] = "True"
      [] v[1] = "str"  -> v[2] # ""
      [] v[1] = "int"  -> v[2] # "0"
      [] v[1] = "ref"  -> DOMAIN h[v[2]] # {}

\* The value a Python expression denotes, with the dict a reference points to
\* spelled out (the dicts of this model nest one level deep).
Deep(h, v) ==
    IF v[1] = "ref"
    THEN [tag |-> "dict", val |-> "", items |-> h[v[2]]]
    ELSE [tag |-> v[1], val |-> v[2], items |-> EmptyDict]

DeepDict(h, a) == [k \in DOMAIN h[a] |-> Deep(h, h[a][k])]

\* Addresses reachable from the dict at address a.
Reach(h, a) ==
    {a} \cup {h[a][k][2] : k \in {x \in DOMAIN h[a] : h[a][x][1] = "ref"}}

---------------------------------------------------------------------------
(* copy.deepcopy on the heap: every dict reachable from `a` is copied to a  *)
(* fresh address and references are redirected to the copies.              *)

CopyOf(a) == IF a = "caller" THEN "own" ELSE "ownNested"

DeepCopyValue(v) == IF v[1] = "ref" THEN PyRef(CopyOf(v[2])) ELSE v

deepcopy(h, a) ==
    LET src == Reach(h, a)
        new == {CopyOf(x) : x \in src}
        from(b) == CHOOSE x \in src : CopyOf(x) = b
    IN  [b \in DOMAIN h \cup new |->
            IF b \in new
            THEN [k \in DOMAIN h[from(b)] |-> DeepCopyValue(h[from(b)][k])]
            ELSE h[b]]

---------------------------------------------------------------------------
(* Requirement.__init__ and EnvVarRequirement.__init__.  The result is the *)
(* heap after construction and the new object's attributes.                *)

\* Mutant: copy.copy instead of copy.deepcopy.
Requirement__init__shallow(h, registry, options) ==
    IF options = PyNone
    THEN [heap |-> h @@ ("own" :> EmptyDict),
          self |-> [registry |-> registry, options |-> "own"]]
    ELSE [heap |-> h @@ ("own" :> h[options[2]]),
          self |-> [registry |-> registry, options |-> "own"]]

Requirement__init__(h, registry, options) ==
    IF options = PyNone
    THEN [heap |-> h @@ ("own" :> EmptyDict),
          self |-> [registry |-> registry, options |-> "own"]]
    ELSE [heap |-> deepcopy(h, options[2]),
          self |-> [registry |-> registry, options |-> CopyOf(options[2])]]

EnvVarRequirement__init__(h, registry, env_var, options) ==
    LET super == Requirement__init__(h, registry, options)
    IN  [heap |-> super.heap,
         self |-> [registry |-> super.self.registry,
                   options |-> super.self.options,
                   env_var |-> env_var]]

---------------------------------------------------------------------------
(* Environment variable names are sequences of words, so that              *)
(* str.endswith is computed as a comparison of suffixes.                   *)

endswith(s, suffix) ==
    /\ Len(suffix) <= Len(s)
    /\ SubSeq(s, Len(s) - Len(suffix) + 1, Len(s)) = suffix

_secret_suffixes ==
    << <<"_", "PASSWORD">>, <<"_", "ENCRYPTED">>,
       <<"_", "SECRET", "_", "KEY">>, <<"_", "SECRET">> >>

title(self) == self.env_var

\* Mutant: a reserved suffix wins over an explicit option.
encrypted_suffix_first(h, self) ==
    IF \E i \in 1..Len(_secret_suffixes) : endswith(self.env_var, _secret_suffixes[i])
    THEN PyTrue
    ELSE IF "encrypted" \in DOMAIN h[self.options]
         THEN h[self.options]["encrypted"] ELSE PyFalse

\* EnvVarRequirement.encrypted: the option's own value when the option is
\* present, otherwise any(...) over the suffixes.
encrypted(h, self) ==
    IF "encrypted" \in DOMAIN h[self.options]
    THEN h[self.options]["encrypted"]
    ELSE PyBool(\E i \in 1..Len(_secret_suffixes) :
                    endswith(self.env_var, _secret_suffixes[i]))

\* Mutant: the empty string is kept as a value.
_get_value_of_env_var_keeps_empty(self, env) ==
    IF self.env_var \in DOMAIN env THEN PyStr(env[self.env_var]) ELSE PyNone

\* Mutant: a variable missing from environ is looked up in os.environ.
_get_value_of_env_var_live(self, env) ==
    LET value == IF self.env_var \in DOMAIN env
                 THEN PyStr(env[self.env_var])
                 ELSE IF self.env_var \in DOMAIN os_environ
                      THEN PyStr(os_environ[self.env_var]) ELSE PyNone
    IN  IF value = PyStr("") THEN PyNone ELSE value

\* Mutant: no value is ever found.
_get_value_of_env_var_unset(self, env) == PyNone

\* environ.get(self.env_var, None), with "" turned into None
_get_value_of_env_var(self, env) ==
    LET value == IF self.env_var \in DOMAIN env
                 THEN PyStr(env[self.env_var]) ELSE PyNone
    IN  IF value = PyStr("") THEN PyNone ELSE value

_unset_message(self) ==
    [fmt |-> "Environment variable {env_var} is not set.",
     env_var |-> self.env_var, value |-> <<>>]

\* Mutant: the value is shown whether or not the variable is encrypted.
_set_message_showing(h, self, env) ==
    [fmt |-> "Environment variable {env_var} set to '{value}'",
     env_var |-> self.env_var,
     value |-> <<_get_value_of_env_var(self, env)>>]

_set_message(h, self, env) ==
    IF Truthy(h, encrypted(h, self))
    THEN [fmt |-> "Environment variable {env_var} is set.",
          env_var |-> self.env_var, value |-> <<>>]
    ELSE [fmt |-> "Environment variable {env_var} set to '{value}'",
          env_var |-> self.env_var,
          value |-> <<_get_value_of_env_var(self, env)>>]

---------------------------------------------------------------------------
(* The provider registry (project/plugins/registry.py).                    *)

ProviderObjs == {"env1", "env2", "dl1"}

ProviderClass(p) ==
    IF p \in {"env1", "env2"} THEN "EnvVarProvider"
    ELSE IF p = "svc1" THEN "ServiceProvider" ELSE "DownloadProvider"

\* Provider.matches(requirement)
matches(p, requirement) == ProviderClass(p) = "EnvVarProvider"

RECURSIVE Dedup(_)
Dedup(s) ==
    IF s = <<>> THEN <<>>
    ELSE LET init == Dedup(SubSeq(s, 1, Len(s) - 1))
             last == s[Len(s)]
         IN  IF \E i \in 1..Len(init) : init[i] = last
             THEN init ELSE Append(init, last)

find_providers_by_env_var(providers, requirement, env_var) ==
    Dedup(SelectSeq(providers, LAMBDA p : matches(p, requirement)))

\* The providers registered in the registry a requirement holds: the
\* project's registry, or a registry of its own in which nothing is registered.
providers_of(registry) == IF registry = "PluginRegistry()" THEN <<>> ELSE registered

---------------------------------------------------------------------------
(* RequirementStatus                                                       *)

\* Mutant: the status forgets the providers.
RequirementStatus__init__without_providers(requirement, has_been_provided, status_description, possible_providers) ==
    [requirement |-> requirement,
     has_been_provided |-> has_been_provided,
     status_description |-> status_description,
     possible_providers |-> <<>>]

\* tuple(iterable): a new sequence with the same elements in the same order
tuple(xs) == [i \in 1..Len(xs) |-> xs[i]]

\* Mutant: the providers are stored in reverse order.
RequirementStatus__init__reversed(requirement, has_been_provided, status_description, possible_providers) ==
    [requirement |-> requirement,
     has_been_provided |-> has_been_provided,
     status_description |-> status_description,
     possible_providers |->
         [i \in 1..Len(possible_providers) |->
             possible_providers[Len(possible_providers) + 1 - i]]]

RequirementStatus__init__(requirement, has_been_provided, status_description, possible_providers) ==
    [requirement |-> requirement,
     has_been_provided |-> has_been_provided,
     status_description |-> status_description,
     possible_providers |-> tuple(possible_providers)]

\* Mutant: a missing registry is taken for a registry without providers.
check_status_degrading(h, self, env) ==
    LET value == _get_value_of_env_var(self, env)
        possible_providers ==
            IF self.registry = "None" THEN <<>>
            ELSE find_providers_by_env_var(providers_of(self.registry), self, self.env_var)
    IN  IF value = PyNone
        THEN [raised |-> "", environ |-> env,
              ret |-> RequirementStatus__init__(
                          self, FALSE, _unset_message(self), possible_providers)]
        ELSE [raised |-> "", environ |-> env,
              ret |-> RequirementStatus__init__(
                          self, TRUE, _set_message(h, self, env), possible_providers)]

\* EnvVarRequirement.check_status.  `raised` is the exception that escapes
\* (a None registry has no find_providers_by_env_var), `environ` the mapping
\* as the call leaves it.
check_status(h, self, env) ==
    LET value == _get_value_of_env_var(self, env)
    IN  IF self.registry = "None"
        THEN [raised |-> "AttributeError", environ |-> env,
              ret |-> RequirementStatus__init__(self, FALSE, _unset_message(self), <<>>)]
        ELSE LET possible_providers ==
                     find_providers_by_env_var(providers_of(self.registry), self, self.env_var)
             IN  IF value = PyNone
                 THEN [raised |-> "", environ |-> env,
                       ret |-> RequirementStatus__init__(
                                   self, FALSE, _unset_message(self), possible_providers)]
                 ELSE [raised |-> "", environ |-> env,
                       ret |-> RequirementStatus__init__(
                                   self, TRUE, _set_message(h, self, env), possible_providers)]

\* Mutant: recheck hands back the status it was called on.
recheck_cached(h, status, env) == [raised |-> "", environ |-> env, ret |-> status]

\* RequirementStatus.recheck
recheck(h, status, env) == check_status(h, status.requirement, env)

---------------------------------------------------------------------------
(* Inputs: names, option mappings and registries a project can declare.    *)

FOO == <<"FOO">>
BAR == <<"BAR">>

NameStems == {<<>>, FOO}

NameTails ==
    {<<>>, <<"_", "PASSWORD">>, <<"_", "ENCRYPTED">>, <<"_", "SECRET", "_", "KEY">>,
     <<"_", "SECRET">>, <<"_", "KEY">>, <<"PASSWORD">>, <<"_", "SECRET", "_", "FOO">>,
     <<"_", "PASSWORD", "_">>}

AllNames == {s \o t : s \in NameStems, t \in NameTails}

OptionScalars ==
    {PyTrue, PyFalse, PyNone, PyStr(""), PyStr("yes"), PyInt("0"), PyInt("1")}

NestedDicts == {EmptyDict, "k" :> PyStr("x")}

\* What the caller holds before constructing the requirement: its heap and
\* the `options` argument (None, or the address of its dict).
NoOptions == [heap |-> <<>>, arg |-> PyNone]

CallerOptions(d) == [heap |-> "caller" :> d, arg |-> PyRef("caller")]

CallerNestedOptions(n) ==
    [heap |-> ("caller" :> ("encrypted" :> PyRef("callerNested"))) @@ ("callerNested" :> n),
     arg |-> PyRef("caller")]

AllArgs ==
    {NoOptions, CallerOptions(EmptyDict)}
    \cup {CallerOptions("encrypted" :> v) : v \in OptionScalars}
    \cup {CallerNestedOptions(n) : n \in NestedDicts}

EnvValues == {"", "bloop", "x"}

BoundedSeqs(S, n) == UNION {[1..m -> S] : m \in 0..n}

Registries == BoundedSeqs(ProviderObjs, MaxRegistered)

---------------------------------------------------------------------------
(* Initial states: the requirement has just been constructed.              *)

InitReq(names, args, registries) ==
    \E env_var \in names, a \in args, providers \in registries :
        LET made == EnvVarRequirement__init__(a.heap, "registry", env_var, a.arg)
        IN  /\ heap = made.heap
            /\ req = made.self
            /\ optionsArg = a.arg
            /\ optionsAtInit =
                   [options |-> DeepDict(made.heap, made.self.options),
                    encrypted |-> Deep(made.heap, encrypted(made.heap, made.self))]
            /\ registered = providers

InitEnv(environs) ==
    /\ environ \in environs
    /\ os_environ = <<>>
    /\ statuses = <<>>
    /\ calls = <<>>
    /\ raised = <<>>

---------------------------------------------------------------------------
(* The caller works on environ and the process environment.                *)

SetEnv(k, v) ==
    /\ environ' = (k :> v) @@ environ
    /\ UNCHANGED <<reqVars, os_environ, statuses, calls, raised, pipe, ui, extVars>>

DelEnv(k) ==
    /\ k \in DOMAIN environ
    /\ environ' = [x \in DOMAIN environ \ {k} |-> environ[x]]
    /\ UNCHANGED <<reqVars, os_environ, statuses, calls, raised, pipe, ui, extVars>>

OsPutenv ==
    /\ req.env_var \notin DOMAIN os_environ
    /\ os_environ' = (req.env_var :> "live") @@ os_environ
    /\ UNCHANGED <<reqVars, environ, statuses, calls, raised, pipe, ui, extVars>>

OsUnsetenv ==
    /\ req.env_var \in DOMAIN os_environ
    /\ os_environ' = [x \in DOMAIN os_environ \ {req.env_var} |-> os_environ[x]]
    /\ UNCHANGED <<reqVars, environ, statuses, calls, raised, pipe, ui, extVars>>

\* status = requirement.check_status(environ)
CheckStatus ==
    /\ Len(statuses) < MaxStatuses
    /\ Len(raised) < MaxStatuses
    /\ LET r == check_status(heap, req, environ)
       IN  /\ environ' = r.environ
           /\ statuses' = IF r.raised = "" THEN Append(statuses, r.ret) ELSE statuses
           /\ calls' = IF r.raised = ""
                       THEN Append(calls, [via |-> "check_status", src |-> 0,
                                           environ |-> environ, left |-> r.environ,
                                           os |-> os_environ, ret |-> r.ret])
                       ELSE calls
           /\ raised' = IF r.raised = "" THEN raised
                        ELSE Append(raised, [via |-> "check_status", environ |-> environ,
                                             left |-> r.environ, exception |-> r.raised])
    /\ UNCHANGED <<reqVars, os_environ, pipe, ui, extVars>>

\* status = statuses[i].recheck(environ)
Recheck(i) ==
    /\ Len(statuses) < MaxStatuses
    /\ LET r == recheck(heap, statuses[i], environ)
       IN  /\ environ' = r.environ
           /\ statuses' = IF r.raised = "" THEN Append(statuses, r.ret) ELSE statuses
           /\ calls' = IF r.raised = ""
                       THEN Append(calls, [via |-> "recheck", src |-> i,
                                           environ |-> environ, left |-> r.environ,
                                           os |-> os_environ, ret |-> r.ret])
                       ELSE calls
           /\ raised' = IF r.raised = "" THEN raised
                        ELSE Append(raised, [via |-> "recheck", environ |-> environ,
                                             left |-> r.environ, exception |-> r.raised])
    /\ UNCHANGED <<reqVars, os_environ, pipe, ui, extVars>>

\* the caller lets go of the statuses it holds
DropStatuses ==
    /\ statuses # <<>>
    /\ statuses' = <<>>
    /\ calls' = <<>>
    /\ raised' = <<>>
    /\ UNCHANGED <<reqVars, environ, os_environ, pipe, ui, extVars>>

---------------------------------------------------------------------------
(* The caller goes on using the mapping it passed as `options`.            *)

CallerSetOption(v) ==
    /\ "caller" \in DOMAIN heap
    /\ heap' = [heap EXCEPT !["caller"] = ("encrypted" :> v) @@ @]
    /\ UNCHANGED <<optionsArg, optionsAtInit, req, registered, envVars, pipe, ui, extVars>>

CallerDelOption ==
    /\ "caller" \in DOMAIN heap
    /\ "encrypted" \in DOMAIN heap["caller"]
    /\ heap' = [heap EXCEPT !["caller"] = [k \in DOMAIN @ \ {"encrypted"} |-> @[k]]]
    /\ UNCHANGED <<optionsArg, optionsAtInit, req, registered, envVars, pipe, ui, extVars>>

CallerMutateNested ==
    /\ "callerNested" \in DOMAIN heap
    /\ heap' = [heap EXCEPT !["callerNested"] =
                    IF @ = EmptyDict THEN "k" :> PyStr("x") ELSE EmptyDict]
    /\ UNCHANGED <<optionsArg, optionsAtInit, req, registered, envVars, pipe, ui, extVars>>

---------------------------------------------------------------------------
(* The preparation pipeline (project/prepare.py): stages executed one at a *)
(* time, each giving either a next stage or a terminal result.             *)

NoResult == [kind |-> "None", logs |-> <<>>, errors |-> <<>>, environ |-> <<>>]

PrepareSuccess(logs, command_exec_info, env) ==
    [kind |-> "PrepareSuccess", logs |-> logs, errors |-> <<>>, environ |-> env]

PrepareFailure(logs, errors) ==
    [kind |-> "PrepareFailure", logs |-> logs, errors |-> errors, environ |-> <<>>]

\* Mutant: the stage also names itself as the next stage.
_do_nothing_and_go_on(stage) ==
    [stage |-> [stage EXCEPT !._result = PrepareSuccess(<<>>, "None", <<>>)],
     next |-> "Do Nothing"]

\* Mutant: the stage sets no result and names itself as the next stage.
_do_nothing_forever(stage) == [stage |-> stage, next |-> "Do Nothing"]

\* Mutant: the stage reports a failure.
_do_nothing_failing(stage) ==
    [stage |-> [stage EXCEPT !._result = PrepareFailure(<<>>, <<"nothing done">>),
                             !.errors = <<"nothing done">>],
     next |-> "None"]

\* _no_op_prepare: the stage function of the "Do Nothing" stage sets a
\* PrepareSuccess with no logs and returns no next stage.
_do_nothing(stage) ==
    [stage |-> [stage EXCEPT !._result = PrepareSuccess(<<>>, "None", <<>>)],
     next |-> "None"]

\* The requirements of a pipeline are constructed without options.
PipeRequirement(env_var) ==
    EnvVarRequirement__init__(<<>>, "registry", env_var, PyNone).self

Indices(S, n) == SelectSeq([i \in 1..n |-> i], LAMBDA i : i \in S)

Unmet(P, env) ==
    {i \in 1..Len(P.requirements) :
        ~check_status(heap, P.requirements[i], env).ret.has_been_provided}

MissingErrors(P, S) ==
    LET idx == Indices(S, Len(P.requirements))
    IN  [k \in 1..Len(idx) |->
            [fmt |-> "missing requirement to run this project: {title}",
             arg |-> title(P.requirements[idx[k]])]]

\* Mutant: a failed attempt records no error.
provide_swallowing_errors(p, requirement, env, outcome) ==
    CASE outcome = "ok" ->
            [environ |-> (requirement.env_var :> "bloop") @@ env,
             logs |-> <<[fmt |-> "{provider} provided {title}", arg |-> <<p, title(requirement)>>]>>,
             errors |-> <<>>]
      [] outcome = "empty" ->
            [environ |-> (requirement.env_var :> "") @@ env,
             logs |-> <<>>, errors |-> <<>>]
      [] outcome = "error" ->
            [environ |-> env, logs |-> <<>>, errors |-> <<>>]

\* Provider.provide(requirement, context): what the provider does is fixed
\* by its configuration: it writes a value, writes an empty default, or fails.
provide(p, requirement, env, outcome) ==
    CASE outcome = "ok" ->
            [environ |-> (requirement.env_var :> "bloop") @@ env,
             logs |-> <<[fmt |-> "{provider} provided {title}", arg |-> <<p, title(requirement)>>]>>,
             errors |-> <<>>]
      [] outcome = "empty" ->
            [environ |-> (requirement.env_var :> "") @@ env,
             logs |-> <<>>, errors |-> <<>>]
      [] outcome = "error" ->
            [environ |-> env, logs |-> <<>>,
             errors |-> <<[fmt |-> "{provider} failed to provide {title}",
                           arg |-> <<p, title(requirement)>>]>>]

\* Nothing runs and nothing was fetched; no provider was called.
NoWorld == [running |-> {}, fetched |-> {}, effects |-> <<>>, behaviour |-> <<>>, provides |-> <<>>]

\* No project directory is loaded.
NoProject == [services |-> <<>>, order |-> "", loaded |-> FALSE, raised |-> "",
              problems |-> <<>>, requirements |-> <<>>]

\* No command was run.
SimpleStatus(success, description, errors) ==
    [success |-> success, description |-> description, errors |-> errors]

NoCli == [operation |-> [infos |-> <<>>, errors |-> <<>>,
                         status |-> SimpleStatus(TRUE, "", <<>>)],
          ran |-> FALSE, code |-> 0, out |-> <<>>, err |-> <<>>]

\* FakeFrontend(): nothing emitted, nothing buffered, nothing passed yet.
NoFrontend == [logs |-> <<>>, errors |-> <<>>, _info_buf |-> <<>>, _error_buf |-> <<>>,
               info_passed |-> <<>>, error_passed |-> <<>>]

\* Nothing was sent and nothing is in progress.
NoLoop == [pending |-> <<>>, handling |-> <<>>, providing |-> <<>>, completed |-> <<>>]

\* Mutant: the loop starts a callback while another is in progress.
Idle_never_waits(L) == TRUE

\* The loop runs one callback at a time: it starts the next one when no
\* handler and no provide call is in progress.
Idle(L) == L.handling = <<>> /\ L.providing = <<>>

\* No frontend is in use and the event loop is idle.
Quiet == fake_frontend = NoFrontend /\ loop = NoLoop

\* Mutant: the service is launched on every call.
provide_service_relaunch(w, p, requirement, env, outcome) ==
    IF outcome = "error"
    THEN [world |-> w, environ |-> env, logs |-> <<>>,
          errors |-> <<[fmt |-> "{provider} failed to provide {title}",
                        arg |-> <<p, title(requirement)>>]>>]
    ELSE [world |-> [w EXCEPT !.running = @ \cup {requirement.env_var},
                              !.effects = Append(@, [effect |-> "start",
                                                     env_var |-> requirement.env_var])],
          environ |-> (requirement.env_var :> "redis://localhost:6379") @@ env,
          logs |-> <<>>, errors |-> <<>>]

\* The service provider's provide: a service that runs is validated, not
\* launched again; the connection string goes into environ.
provide_service(w, p, requirement, env, outcome) ==
    IF outcome = "error"
    THEN [world |-> w, environ |-> env, logs |-> <<>>,
          errors |-> <<[fmt |-> "{provider} failed to provide {title}",
                        arg |-> <<p, title(requirement)>>]>>]
    ELSE [world |-> IF requirement.env_var \in w.running THEN w
                    ELSE [w EXCEPT !.running = @ \cup {requirement.env_var},
                                   !.effects = Append(@, [effect |-> "start",
                                                          env_var |-> requirement.env_var])],
          environ |-> (requirement.env_var :> "redis://localhost:6379") @@ env,
          logs |-> <<>>, errors |-> <<>>]

\* The download provider's provide: a file that is there is not fetched
\* again; its local path goes into environ.
provide_download(w, p, requirement, env, outcome) ==
    IF outcome = "error"
    THEN [world |-> w, environ |-> env, logs |-> <<>>,
          errors |-> <<[fmt |-> "{provider} failed to provide {title}",
                        arg |-> <<p, title(requirement)>>]>>]
    ELSE [world |-> IF requirement.env_var \in w.fetched THEN w
                    ELSE [w EXCEPT !.fetched = @ \cup {requirement.env_var},
                                   !.effects = Append(@, [effect |-> "fetch",
                                                          env_var |-> requirement.env_var])],
          environ |-> (requirement.env_var :> "/local/path") @@ env,
          logs |-> <<>>, errors |-> <<>>]

\* provide of any kind of provider, with what it does outside the process.
provide_in_world(w, p, requirement, env, outcome) ==
    CASE ProviderClass(p) = "ServiceProvider" -> provide_service(w, p, requirement, env, outcome)
      [] ProviderClass(p) = "DownloadProvider" -> provide_download(w, p, requirement, env, outcome)
      [] OTHER -> [world |-> w,
                   environ |-> provide(p, requirement, env, outcome).environ,
                   logs |-> provide(p, requirement, env, outcome).logs,
                   errors |-> provide(p, requirement, env, outcome).errors]

\* The candidates of requirement i are tried in possible_providers order,
\* from candidate k on, until the requirement is provided. (CHOOSE over a
\* one-element set binds a value that is computed once.)
RECURSIVE TryCandidates(_, _, _, _)
TryCandidates(P, i, k, acc) ==
    CHOOSE out \in
        { LET st == check_status(heap, P.requirements[i], a.environ).ret
          IN  IF st.has_been_provided \/ k > Len(st.possible_providers)
              THEN a
              ELSE CHOOSE next \in
                      { TryCandidates(P, i, k + 1,
                            [environ |-> r.environ,
                             logs |-> a.logs \o r.logs,
                             errors |-> a.errors \o r.errors,
                             invoked |-> Append(a.invoked, <<i, st.possible_providers[k]>>)])
                        : r \in {provide(st.possible_providers[k], P.requirements[i], a.environ,
                                         P.behaviour[st.possible_providers[k]])} } : TRUE
          : a \in {acc} } : TRUE

RECURSIVE ApplyFrom(_, _, _)
ApplyFrom(P, i, acc) ==
    IF i > Len(P.requirements) THEN acc
    ELSE ApplyFrom(P, i + 1, TryCandidates(P, i, 1, acc))

initial_stage(P, env) == [stage |-> P, next |-> "Computing status", environ |-> env]

computing_status(P, env) ==
    CHOOSE out \in
        { LET unmet == {i \in 1..Len(sts) : ~sts[i].has_been_provided}
              stranded == {i \in unmet : sts[i].possible_providers = <<>>}
              Q == [P EXCEPT !.statuses = sts]
          IN  IF unmet = {}
              THEN [stage |-> [Q EXCEPT !._result = PrepareSuccess(P.logs, "None", env)],
                    next |-> "None", environ |-> env]
              ELSE IF stranded # {}
              THEN [stage |-> [Q EXCEPT !._result =
                                  PrepareFailure(P.logs, P.errors \o MissingErrors(P, stranded)),
                               !.errors = P.errors \o MissingErrors(P, stranded)],
                    next |-> "None", environ |-> env]
              ELSE [stage |-> Q,
                    next |-> IF P.mode = "interactive" THEN "AwaitingInput" ELSE "ApplyingProviders",
                    environ |-> env]
          : sts \in {[i \in 1..Len(P.requirements) |->
                         check_status(heap, P.requirements[i], env).ret]} } : TRUE

applying_providers(P, env) ==
    CHOOSE out \in
        { LET left == Unmet(P, acc.environ)
              Q == [P EXCEPT !.logs = P.logs \o acc.logs,
                             !.errors = P.errors \o acc.errors,
                             !.invoked = P.invoked \o acc.invoked]
          IN  IF left # {}
              THEN [stage |-> [Q EXCEPT !._result =
                                  PrepareFailure(Q.logs, Q.errors \o MissingErrors(P, left)),
                               !.errors = Q.errors \o MissingErrors(P, left)],
                    next |-> "None", environ |-> acc.environ]
              ELSE [stage |-> Q, next |-> "Computing status", environ |-> acc.environ]
          : acc \in {ApplyFrom(P, 1, [environ |-> env, logs |-> <<>>,
                                      errors |-> <<>>, invoked |-> <<>>])} } : TRUE

\* The values submitted while the pipeline awaits input go into environ.
awaiting_input(P, env, input) ==
    [stage |-> P, next |-> "Computing status", environ |-> input @@ env]

InputsFor(P, env) ==
    LET names == {P.requirements[i].env_var : i \in Unmet(P, env)}
    IN  UNION {[S -> {"", "bloop"}] : S \in SUBSET names}

\* "run one step, take the returned next stage"
Step(r) ==
    /\ pipe' = [r.stage EXCEPT !.stage = r.next,
                               !.last = [next |-> r.next, result |-> r.stage._result.kind],
                               !.steps = IF @ < MaxSteps THEN @ + 1 ELSE @]
    /\ environ' = r.environ
    /\ UNCHANGED <<reqVars, os_environ, statuses, calls, raised, ui, extVars>>

ExecuteDoNothing ==
    /\ pipe.stage = "Do Nothing"
    /\ \E r \in {_do_nothing(pipe)} :
           Step([stage |-> r.stage, next |-> r.next, environ |-> environ])

ExecuteInitial ==
    /\ pipe.stage = "Initial"
    /\ \E r \in {initial_stage(pipe, environ)} : Step(r)

ExecuteComputingStatus ==
    /\ pipe.stage = "Computing status"
    /\ \E r \in {computing_status(pipe, environ)} : Step(r)

ExecuteApplyingProviders ==
    /\ pipe.stage = "ApplyingProviders"
    /\ \E r \in {applying_providers(pipe, environ)} : Step(r)

ExecuteAwaitingInput ==
    /\ pipe.stage = "AwaitingInput"
    /\ \E input \in InputsFor(pipe, environ) :
           \E r \in {awaiting_input(pipe, environ, input)} : Step(r)

Pipeline(first, mode, names, behaviour) ==
    [stage |-> first, mode |-> mode,
     requirements |-> [i \in 1..Len(names) |-> PipeRequirement(names[i])],
     behaviour |-> behaviour,
     _result |-> NoResult, statuses |-> <<>>, logs |-> <<>>, errors |-> <<>>,
     invoked |-> <<>>, steps |-> 0, last |-> [next |-> first, result |-> "None"]]

UIServerDoneEvent == [event |-> "UIServerDoneEvent"]

\* UIServer(stage, event_handler, io_loop) over
\* ConfigurePrepareContext(environ, local_state_file, statuses)
UIServer(context_statuses) ==
    [listening |-> TRUE,
     statuses |-> context_statuses,
     _requirements_by_id |-> <<>>,
     fields |-> <<>>,
     local_state |-> <<>>,
     events |-> <<>>,
     stderr |-> <<>>,
     posts |-> <<>>]

\* No server is listening.
NoServer == [UIServer(<<>>) EXCEPT !.listening = FALSE]

\* No pipeline is running.
NoPipe == Pipeline("None", "batch", <<>>, <<>>)

Outcomes == {"ok", "empty", "error"}

Behaviours == [{"env1", "env2"} -> Outcomes]

PipeNames == {<<>>, <<FOO>>, <<FOO, BAR>>}

PipeRegistries == {<<>>, <<"env1">>, <<"env1", "env2">>}

PipeEnvirons == {<<>>, FOO :> "x", FOO :> ""}

\* The last requirement of P holds a registry of its own.
WithOwnRegistry(P) ==
    [P EXCEPT !.requirements[Len(P.requirements)].registry = "PluginRegistry()"]

Pipelines ==
    {Pipeline("Do Nothing", "batch", names, [p \in {"env1", "env2"} |-> "ok"]) : names \in PipeNames}
    \cup {Pipeline("Initial", mode, names, b) :
            mode \in {"interactive", "batch"}, names \in PipeNames, b \in Behaviours}
    \cup {WithOwnRegistry(Pipeline("Initial", mode, <<FOO, BAR>>, b)) :
            mode \in {"interactive", "batch"}, b \in Behaviours}

PipeInit ==
    /\ InitReq({FOO}, {NoOptions}, PipeRegistries)
    /\ InitEnv(PipeEnvirons)
    /\ pipe \in Pipelines
    /\ ui = NoServer
    /\ world = NoWorld /\ project = NoProject /\ cli = NoCli /\ Quiet

PipeNext ==
    \/ ExecuteDoNothing
    \/ ExecuteInitial
    \/ ExecuteComputingStatus
    \/ ExecuteApplyingProviders
    \/ ExecuteAwaitingInput

\* The caller executes the current stage for as long as there is one.
PipeSpec == PipeInit /\ [][PipeNext]_vars /\ WF_vars(PipeNext)

---------------------------------------------------------------------------
(* The interactive configuration server, driven the way                    *)
(* src/project/internal/test/test_ui_server.py drives it.  Names are       *)
(* sequences of tokens, "." being the separator, so that splitting a name  *)
(* is computed.                                                            *)

\* name.split("."): the pieces of a name between its dots
RECURSIVE split(_)
split(name) ==
    IF \A i \in 1..Len(name) : name[i] # "." THEN <<name>>
    ELSE LET d == CHOOSE i \in 1..Len(name) :
                      name[i] = "." /\ \A j \in 1..(i - 1) : name[j] # "."
         IN  <<SubSeq(name, 1, d - 1)>> \o split(SubSeq(name, d + 1, Len(name)))

\* name_template % req_id
RECURSIVE Format(_, _)
Format(name_template, req_id) ==
    IF name_template = <<>> THEN <<>>
    ELSE (IF Head(name_template) = "%s" THEN req_id ELSE <<Head(name_template)>>)
         \o Format(Tail(name_template), req_id)

\* Mutant: the template is posted as it is.
FormName_verbatim(name_template, req_id) == name_template

\* _ui_server_bad_form_name_test: the name that is posted for a template
FormName(name_template, req_id) ==
    IF \E i \in 1..Len(name_template) : name_template[i] = "%s"
    THEN Format(name_template, req_id)
    ELSE name_template

\* The id under which a session knows its i-th requirement.
RequirementId(i) == <<<<"id1">>, <<"id2">>>>[i]

\* {requirement-id}.{provider-name}.{field}
FieldName(req_id, provider_name, field) ==
    req_id \o <<".", provider_name, ".", field>>

\* GET /: one text field per unmet requirement that a provider can take a
\* value for; the ids of the session's requirements are known from here on.
get(U) ==
    LET n == Len(U.statuses)
        shown == {i \in 1..n : /\ ~U.statuses[i].has_been_provided
                               /\ U.statuses[i].possible_providers # <<>>}
        idx == Indices(shown, n)
    IN  [U EXCEPT
            !._requirements_by_id =
                [id \in {RequirementId(i) : i \in 1..n} |->
                    U.statuses[CHOOSE i \in 1..n : RequirementId(i) = id]],
            !.fields =
                [k \in 1..Len(idx) |->
                    FieldName(RequirementId(idx[k]),
                              ProviderClass(U.statuses[idx[k]].possible_providers[1]),
                              "value")]]

log(acc, message) == [acc EXCEPT !.err = Append(@, message)]

\* One field of a POST body: the name is split and routed, or logged and
\* ignored.
post_field(by_id, acc, name, value) ==
    LET parts == split(name)
    IN  IF Len(parts) < 3
        THEN log(acc, [fmt |-> "not enough pieces in {parts}", arg |-> parts])
        ELSE IF parts[1] \notin DOMAIN by_id
        THEN log(acc, [fmt |-> "{req_id} not a known requirement id", arg |-> parts[1]])
        ELSE IF \A k \in 1..Len(by_id[parts[1]].possible_providers) :
                    <<ProviderClass(by_id[parts[1]].possible_providers[k])>> # parts[2]
        THEN log(acc, [fmt |-> "did not find provider {name}", arg |-> parts[2]])
        ELSE [acc EXCEPT
                !.local_state =
                    (<<"variables", by_id[parts[1]].requirement.env_var>> :> value) @@ @,
                !.environ = (by_id[parts[1]].requirement.env_var :> value) @@ @]

RECURSIVE post_fields(_, _, _)
post_fields(by_id, acc, body) ==
    IF body = <<>> THEN acc
    ELSE post_fields(by_id, post_field(by_id, acc, Head(body).name, Head(body).value),
                     Tail(body))

\* POST /: every field is processed, one completion event is emitted, the
\* response is 200.
post(U, env, form) ==
    LET body == [k \in 1..Len(form) |-> [name |-> form[k].name, value |-> form[k].value]]
        acc == post_fields(U._requirements_by_id,
                           [local_state |-> U.local_state, environ |-> env, err |-> <<>>],
                           body)
    IN  [ui |-> [U EXCEPT
                    !.local_state = acc.local_state,
                    !.stderr = @ \o acc.err,
                    !.events = Append(@, UIServerDoneEvent),
                    !.posts = Append(@, [form |-> form,
                                         fields |-> U.fields,
                                         _requirements_by_id |-> U._requirements_by_id,
                                         environ_before |-> env,
                                         environ |-> acc.environ,
                                         local_state |-> acc.local_state,
                                         err |-> acc.err,
                                         code |-> 200])],
         environ |-> acc.environ]

\* The templates of _ui_server_bad_form_name_test, and others like them.
Templates ==
    {<<"nopieces">>,
     <<"a", ".", "b">>,
     <<"badid", ".", "EnvVarProvider", ".", "value">>,
     <<"badid", ".", "BadProvider", ".", "value">>,
     <<"%s", ".", "BadProvider", ".", "value">>,
     <<"%s", ".", "EnvVarProvider", ".", "value">>}

\* req_id = list(server._application._requirements_by_id.keys())[0]
FirstKeys(U) ==
    IF DOMAIN U._requirements_by_id = {} THEN {} ELSE {RequirementId(1)}

\* What a client can put into one field: a name made from a template with
\* the value 'bloop', or the name of a field of the last GET with a value.
FormEntries(U) ==
    {[name_template |-> t, req_id |-> r, name |-> FormName(t, r), value |-> "bloop"] :
        t \in {x \in Templates : \A i \in 1..Len(x) : x[i] # "%s"}, r \in {<<>>}}
    \cup {[name_template |-> t, req_id |-> r, name |-> FormName(t, r), value |-> "bloop"] :
            t \in {x \in Templates : \E i \in 1..Len(x) : x[i] = "%s"}, r \in FirstKeys(U)}
    \cup {[name_template |-> <<"field['name']">>, req_id |-> <<>>, name |-> U.fields[k], value |-> v] :
            k \in 1..Len(U.fields), v \in {"", "bloop"}}

\* The bodies of at most two fields; a body has a name once.
Forms(U) ==
    {<<>>} \cup {<<f>> : f \in FormEntries(U)}
    \cup {form \in FormEntries(U) \X FormEntries(U) : form[1].name # form[2].name}

\* Mutant: a GET emits a completion event too.
HttpGet_emitting ==
    /\ ui.listening
    /\ ui' = [get(ui) EXCEPT !.events = IF Len(@) < 2 THEN Append(@, UIServerDoneEvent) ELSE @]
    /\ UNCHANGED <<reqVars, envVars, pipe, extVars>>

HttpGet ==
    /\ ui.listening
    /\ ui' = get(ui)
    /\ UNCHANGED <<reqVars, envVars, pipe, extVars>>

\* Mutant: a POST is handled whether or not the server listens.
HttpPost_unguarded ==
    /\ Len(ui.posts) < MaxPosts
    /\ \E form \in Forms(ui) :
          /\ ui' = post(ui, environ, form).ui
          /\ environ' = post(ui, environ, form).environ
    /\ UNCHANGED <<reqVars, os_environ, statuses, calls, raised, pipe, extVars>>

HttpPost ==
    /\ ui.listening
    /\ Len(ui.posts) < MaxPosts
    /\ \E form \in Forms(ui) :
          /\ ui' = post(ui, environ, form).ui
          /\ environ' = post(ui, environ, form).environ
    /\ UNCHANGED <<reqVars, os_environ, statuses, calls, raised, pipe, extVars>>

\* server.unlisten()
Unlisten ==
    /\ ui.listening
    /\ ui' = [ui EXCEPT !.listening = FALSE]
    /\ UNCHANGED <<reqVars, envVars, pipe, extVars>>

UIRegistries == {<<>>, <<"env1">>}

UIEnvirons == {<<>>, FOO :> "x"}

UIInit ==
    /\ InitReq({FOO}, {NoOptions}, UIRegistries)
    /\ InitEnv(UIEnvirons)
    /\ pipe \in {Pipeline("Do Nothing", "batch", names, [p \in {"env1", "env2"} |-> "ok"]) :
                    names \in PipeNames}
    /\ ui = UIServer([i \in 1..Len(pipe.requirements) |->
                         check_status(heap, pipe.requirements[i], environ).ret])
    /\ world = NoWorld /\ project = NoProject /\ cli = NoCli /\ Quiet

UINext ==
    \/ HttpGet
    \/ HttpPost
    \/ Unlisten
    \/ ExecuteDoNothing

UISpec == UIInit /\ [][UINext]_vars

---------------------------------------------------------------------------
(* Specifications.                                                         *)

\* The requirement is used on its own: no pipeline runs.
Standalone == pipe = NoPipe /\ ui = NoServer /\ world = NoWorld /\ project = NoProject /\ cli = NoCli /\ Quiet

\* Status checks of one requirement against a changing environ.
SpecNames == {FOO, FOO \o <<"_", "PASSWORD">>}

SpecArgs == {NoOptions, CallerOptions("encrypted" :> PyFalse), CallerOptions("encrypted" :> PyStr("yes"))}

Init == InitReq(SpecNames, SpecArgs, {<<"env1">>}) /\ InitEnv({<<>>, BAR :> "x"}) /\ Standalone

EnvNext ==
    \/ \E v \in EnvValues : SetEnv(req.env_var, v)
    \/ DelEnv(req.env_var)
    \/ OsPutenv
    \/ OsUnsetenv
    \/ CheckStatus
    \/ \E i \in 1..Len(statuses) : Recheck(i)
    \/ DropStatuses

Next == EnvNext

Spec == Init /\ [][Next]_vars

\* The same, over every registry.
RegistryInit == InitReq({FOO}, {NoOptions}, Registries) /\ InitEnv({<<>>}) /\ Standalone

RegistryNext ==
    \/ SetEnv(req.env_var, "bloop")
    \/ DelEnv(req.env_var)
    \/ CheckStatus
    \/ DropStatuses

RegistrySpec == RegistryInit /\ [][RegistryNext]_vars

\* Construction from every name and options mapping; the caller then
\* mutates what it passed.
OptionsInit == InitReq(AllNames, AllArgs, {<<"env1">>}) /\ InitEnv({<<>>}) /\ Standalone

OptionsNext ==
    \/ \E v \in OptionScalars : CallerSetOption(v)
    \/ CallerDelOption
    \/ CallerMutateNested

OptionsSpec == OptionsInit /\ [][OptionsNext]_vars

\* Providers called directly, one call after the other, on one requirement.
WorldProviders == {"env1", "svc1", "dl1"}

WorldBehaviours ==
    {b \in [WorldProviders -> Outcomes] : b["svc1"] # "empty" /\ b["dl1"] # "empty"}

Provide(p) ==
    /\ Len(world.provides) < MaxProvides
    /\ \E r \in {provide_in_world(world, p, req, environ, world.behaviour[p])} :
          /\ environ' = r.environ
          /\ world' = [r.world EXCEPT
                          !.provides = Append(@,
                              [provider |-> p, before |-> environ, after |-> r.environ,
                               effects |-> SubSeq(r.world.effects, Len(world.effects) + 1,
                                                  Len(r.world.effects))])]
    /\ UNCHANGED <<reqVars, os_environ, statuses, calls, raised, pipe, ui, project, cli, fake_frontend, loop>>

ProviderInit ==
    /\ InitReq({FOO}, {NoOptions}, {<<"env1">>})
    /\ InitEnv({<<>>, FOO :> "x"})
    /\ pipe = NoPipe
    /\ ui = NoServer
    /\ world \in {[NoWorld EXCEPT !.behaviour = b] : b \in WorldBehaviours}
    /\ project = NoProject
    /\ cli = NoCli
    /\ Quiet

ProviderNext == \E p \in WorldProviders : Provide(p)

ProviderSpec == ProviderInit /\ [][ProviderNext]_vars

---------------------------------------------------------------------------
(* Loading the services section of a project file, the way                 *)
(* src/conda_kapsel/plugins/requirements/test/test_service_requirement.py  *)
(* loads it.  A declared value is a string, a mapping or a list.           *)

PyList(text) == <<"list", text>>

ServiceString(text) == [shape |-> "str", text |-> text, items |-> <<>>]

ServiceDict(items) == [shape |-> "dict", text |-> "", items |-> items]

ServiceList(text) == [shape |-> "list", text |-> text, items |-> <<>>]

KnownServiceTypes == {"redis"}

BadValueProblem(varname) ==
    [fmt |-> "Service {} should have a service type string or a dictionary as its value.",
     args |-> <<varname>>]

UnknownTypeProblem(varname, service_type) ==
    [fmt |-> "Service {} has an unknown type '{}'.", args |-> <<varname, service_type>>]

NoTypeProblem(varname) ==
    [fmt |-> "Service {} doesn't contain a 'type' field.", args |-> <<varname>>]

BadDefaultProblem(varname, default) ==
    [fmt |-> "default value for variable {} must be null, a string, or a number, not {}.",
     args |-> <<varname, default[2]>>]

\* a default is null, a string or a number
good_default(options) ==
    "default" \in DOMAIN options => options["default"][1] \in {"none", "str", "int"}

ServiceRequirement__init__(registry, env_var, options) ==
    [kind |-> "ServiceRequirement", registry |-> registry, env_var |-> env_var,
     options |-> options]

\* One entry of the services section: a problem, or a ServiceRequirement.
\* When the type is unknown and the default is bad as well, `order` says
\* which of the two is looked at first.
parse_service(varname, item, order) ==
    LET options == IF item.shape = "str" THEN ("type" :> PyStr(item.text)) ELSE item.items
    IN  IF item.shape \notin {"str", "dict"}
        THEN [problems |-> <<BadValueProblem(varname)>>, requirements |-> <<>>]
        ELSE IF "type" \notin DOMAIN options
        THEN [problems |-> <<NoTypeProblem(varname)>>, requirements |-> <<>>]
        ELSE IF /\ ~good_default(options)
                /\ order = "default" \/ options["type"][2] \in KnownServiceTypes
        THEN [problems |-> <<BadDefaultProblem(varname, options["default"])>>,
              requirements |-> <<>>]
        ELSE IF options["type"][2] \notin KnownServiceTypes
        THEN [problems |-> <<UnknownTypeProblem(varname, options["type"][2])>>,
              requirements |-> <<>>]
        ELSE [problems |-> <<>>,
              requirements |-> <<ServiceRequirement__init__("registry", varname, options)>>]

RECURSIVE parse_services(_, _, _)
parse_services(services, order, acc) ==
    IF services = <<>> THEN acc
    ELSE parse_services(Tail(services), order,
            [problems |-> acc.problems
                            \o parse_service(Head(services).name, Head(services).value, order).problems,
             requirements |-> acc.requirements
                            \o parse_service(Head(services).name, Head(services).value, order).requirements])

\* Project(dirname): problems and requirements of the directory's project file
Project(dir) ==
    [dir EXCEPT !.loaded = TRUE,
                !.problems = parse_services(dir.services, dir.order,
                                            [problems |-> <<>>, requirements |-> <<>>]).problems,
                !.requirements = parse_services(dir.services, dir.order,
                                            [problems |-> <<>>, requirements |-> <<>>]).requirements]

\* Mutant: the last ServiceRequirement is returned.
_load_service_requirement_last(P) ==
    IF P.problems # <<>> THEN [raised |-> "AssertionError", req |-> <<>>]
    ELSE IF P.requirements = <<>> THEN [raised |-> "RuntimeError", req |-> <<>>]
    ELSE [raised |-> "", req |-> <<P.requirements[Len(P.requirements)]>>]

\* _load_service_requirement: the first ServiceRequirement of a project
\* without problems
_load_service_requirement(P) ==
    IF P.problems # <<>> THEN [raised |-> "AssertionError", req |-> <<>>]
    ELSE IF P.requirements = <<>> THEN [raised |-> "RuntimeError", req |-> <<>>]
    ELSE [raised |-> "", req |-> <<P.requirements[1]>>]

Declarations ==
    {ServiceList("[42]"),
     ServiceString("not_a_service"),
     ServiceString("redis"),
     ServiceDict(<<>>),
     ServiceDict("foo" :> PyStr("bar")),
     ServiceDict("type" :> PyStr("redis")),
     ServiceDict(("type" :> PyStr("redis")) @@ ("foo" :> PyStr("bar"))
                    @@ ("default" :> PyStr("hello"))),
     ServiceDict(("type" :> PyStr("redis")) @@ ("default" :> PyList("[]"))),
     ServiceDict(("type" :> PyStr("redis")) @@ ("default" :> PyNone)),
     ServiceDict(("type" :> PyStr("redis")) @@ ("default" :> PyInt("42"))),
     ServiceDict("type" :> PyStr("not_a_service")),
     ServiceDict(("type" :> PyStr("not_a_service")) @@ ("default" :> PyList("[]"))),
     ServiceDict("default" :> PyList("[]"))}

\* The services sections: at most two services, under different names.
ServicesSections ==
    {<<>>}
    \cup {<<[name |-> "FOOBAR", value |-> d]>> : d \in Declarations}
    \cup {<<[name |-> n[1], value |-> d], [name |-> n[2], value |-> e]>> :
            n \in {<<"FOOBAR", "BAZ">>, <<"BAZ", "FOOBAR">>},
            d \in Declarations, e \in Declarations}

LoadProject ==
    /\ ~project.loaded
    /\ project' = Project(project)
    /\ UNCHANGED <<reqVars, envVars, pipe, ui, world, cli, fake_frontend, loop>>

\* The directory is written again before it is loaded anew.
WriteProjectFile ==
    /\ project.loaded
    /\ project' = [NoProject EXCEPT !.services = project.services, !.order = project.order]
    /\ UNCHANGED <<reqVars, envVars, pipe, ui, world, cli, fake_frontend, loop>>

ProjectInit ==
    /\ InitReq({FOO}, {NoOptions}, {<<"env1">>})
    /\ InitEnv({<<>>})
    /\ pipe = NoPipe
    /\ ui = NoServer
    /\ world = NoWorld
    /\ cli = NoCli
    /\ Quiet
    /\ project \in {[NoProject EXCEPT !.services = s, !.order = o] :
                        s \in ServicesSections, o \in {"default", "type"}}

ProjectNext == LoadProject \/ WriteProjectFile

ProjectSpec == ProjectInit /\ [][ProjectNext]_vars

---------------------------------------------------------------------------
(* A command of the command line, the way                                  *)
(* src/anaconda_project/internal/cli/test/test_unarchive.py runs it: the   *)
(* operation is replaced by a mock that talks to the frontend and returns  *)
(* a SimpleStatus.                                                         *)

MaxLogs == 2

\* the frontend of the command line collects what it is told
CliFrontend == [infos |-> <<>>, errors |-> <<>>]

info(frontend, message) == [frontend EXCEPT !.infos = Append(@, message)]

error(frontend, message) == [frontend EXCEPT !.errors = Append(@, message)]

RECURSIVE tell(_, _, _)
tell(frontend, stream, messages) ==
    IF messages = <<>> THEN frontend
    ELSE tell(IF stream = "info" THEN info(frontend, Head(messages))
                                 ELSE error(frontend, Head(messages)),
              stream, Tail(messages))

\* Mutant: the operation does not report its errors to the frontend.
mock_unarchive_silent(operation, frontend) ==
    [frontend |-> tell(frontend, "info", operation.infos),
     status |-> operation.status]

\* mock_unarchive: frontend.info for each info, frontend.error for each
\* error, then the SimpleStatus
mock_unarchive(operation, frontend) ==
    [frontend |-> tell(tell(frontend, "info", operation.infos), "error", operation.errors),
     status |-> operation.status]

\* the command: infos are progress on standard output; the description
\* follows them on success, and follows the errors on standard error on
\* failure
unarchive_command(c) ==
    LET r == mock_unarchive(c.operation, CliFrontend)
    IN  IF r.status.success
        THEN [c EXCEPT !.ran = TRUE, !.code = 0,
                       !.out = r.frontend.infos \o <<r.status.description>>,
                       !.err = r.frontend.errors]
        ELSE [c EXCEPT !.ran = TRUE, !.code = 1,
                       !.out = r.frontend.infos,
                       !.err = r.frontend.errors \o <<r.status.description>>]

_parse_args_and_run_subcommand(c) == unarchive_command(c)

\* The mocks: a success that tells infos, a failure that tells infos and
\* the errors of its status.
MockOperations ==
    {[infos |-> i, errors |-> <<>>, status |-> SimpleStatus(TRUE, d, <<>>)] :
        i \in BoundedSeqs({"a", "b"}, MaxLogs), d \in {"DESC", ""}}
    \cup {[infos |-> i, errors |-> e, status |-> SimpleStatus(FALSE, d, e)] :
        i \in BoundedSeqs({"a", "b"}, MaxLogs), e \in BoundedSeqs({"c", "d"}, MaxLogs),
        d \in {"DESC", ""}}

\* monkeypatch.setattr: the operation becomes the mock; capsys is empty
Monkeypatch(operation) ==
    /\ cli.ran
    /\ cli' = [NoCli EXCEPT !.operation = operation]
    /\ UNCHANGED <<reqVars, envVars, pipe, ui, world, project, fake_frontend, loop>>

RunSubcommand ==
    /\ ~cli.ran
    /\ cli' = _parse_args_and_run_subcommand(cli)
    /\ UNCHANGED <<reqVars, envVars, pipe, ui, world, project, fake_frontend, loop>>

CliInit ==
    /\ InitReq({FOO}, {NoOptions}, {<<"env1">>})
    /\ InitEnv({<<>>})
    /\ pipe = NoPipe
    /\ ui = NoServer
    /\ world = NoWorld
    /\ project = NoProject
    /\ cli \in {[NoCli EXCEPT !.operation = m] : m \in MockOperations}
    /\ Quiet

CliNext ==
    \/ RunSubcommand
    \/ \E m \in MockOperations : Monkeypatch(m)

CliSpec == CliInit /\ [][CliNext]_vars

---------------------------------------------------------------------------
(* A requirement constructed without a registry: EnvVarRequirement(None,   *)
(* env_var, options), next to one that has its registry.                   *)

MissingRegistryInit ==
    /\ \E env_var \in SpecNames, a \in SpecArgs, registry \in {"None", "registry"} :
          LET made == EnvVarRequirement__init__(a.heap, registry, env_var, a.arg)
          IN  /\ heap = made.heap
              /\ req = made.self
              /\ optionsArg = a.arg
              /\ optionsAtInit =
                     [options |-> DeepDict(made.heap, made.self.options),
                      encrypted |-> Deep(made.heap, encrypted(made.heap, made.self))]
              /\ registered = <<"env1">>
    /\ InitEnv({<<>>, BAR :> "x"})
    /\ Standalone

MissingRegistryNext ==
    \/ \E v \in EnvValues : SetEnv(req.env_var, v)
    \/ DelEnv(req.env_var)
    \/ CheckStatus
    \/ \E i \in 1..Len(statuses) : Recheck(i)
    \/ DropStatuses

MissingRegistrySpec == MissingRegistryInit /\ [][MissingRegistryNext]_vars

---------------------------------------------------------------------------
(* A frontend's partial messages, the way                                  *)
(* src/anaconda_project/test/test_frontend.py passes them.  Text is a      *)
(* sequence of characters; CR and LF stand for '\r' and '\n'.              *)

MaxChunk == 2         \* characters passed by one call
MaxText == 4          \* characters passed to a frontend altogether

CR == "CR"
LF == "LF"

\* Mutant: the carriage return before a newline stays in the line.
_partial_keeps_cr(buf, lines) ==
    LET RECURSIVE go(_, _)
        go(b, ls) ==
            IF \A i \in 1..Len(b) : b[i] # LF THEN [buf |-> b, lines |-> ls]
            ELSE LET d == CHOOSE i \in 1..Len(b) :
                              b[i] = LF /\ \A j \in 1..(i - 1) : b[j] # LF
                 IN  go(SubSeq(b, d + 1, Len(b)), Append(ls, SubSeq(b, 1, d - 1)))
    IN  go(buf, lines)

\* The buffer, with the new text at its end, is cut at every newline: what
\* is before the newline is emitted as a line, without the carriage return
\* of a '\r\n' ending; what is after the last newline stays in the buffer.
_partial(buf, lines) ==
    LET RECURSIVE go(_, _)
        go(b, ls) ==
            IF \A i \in 1..Len(b) : b[i] # LF THEN [buf |-> b, lines |-> ls]
            ELSE LET d == CHOOSE i \in 1..Len(b) :
                              b[i] = LF /\ \A j \in 1..(i - 1) : b[j] # LF
                     start == SubSeq(b, 1, d - 1)
                 IN  go(SubSeq(b, d + 1, Len(b)),
                        Append(ls, IF endswith(start, <<CR>>)
                                   THEN SubSeq(start, 1, Len(start) - 1)
                                   ELSE start))
    IN  go(buf, lines)

\* frontend.partial_info(data)
partial_info(F, data) ==
    [F EXCEPT !.logs = _partial(F._info_buf \o data, F.logs).lines,
              !._info_buf = _partial(F._info_buf \o data, F.logs).buf,
              !.info_passed = @ \o data]

\* frontend.partial_error(data)
partial_error(F, data) ==
    [F EXCEPT !.errors = _partial(F._error_buf \o data, F.errors).lines,
              !._error_buf = _partial(F._error_buf \o data, F.errors).buf,
              !.error_passed = @ \o data]

InfoChunks == BoundedSeqs({"a", CR, LF}, MaxChunk) \ {<<>>}

ErrorChunks == BoundedSeqs({"1", CR, LF}, MaxChunk) \ {<<>>}

PartialInfo(data) ==
    /\ Len(fake_frontend.info_passed) + Len(fake_frontend.error_passed) + Len(data) <= MaxText
    /\ fake_frontend' = partial_info(fake_frontend, data)
    /\ UNCHANGED <<reqVars, envVars, pipe, ui, world, project, cli, loop>>

PartialError(data) ==
    /\ Len(fake_frontend.info_passed) + Len(fake_frontend.error_passed) + Len(data) <= MaxText
    /\ fake_frontend' = partial_error(fake_frontend, data)
    /\ UNCHANGED <<reqVars, envVars, pipe, ui, world, project, cli, loop>>

\* frontend = FakeFrontend()
FrontendInit ==
    /\ InitReq({FOO}, {NoOptions}, {<<"env1">>})
    /\ InitEnv({<<>>})
    /\ Standalone

FrontendNext ==
    \/ \E data \in InfoChunks : PartialInfo(data)
    \/ \E data \in ErrorChunks : PartialError(data)

FrontendSpec == FrontendInit /\ [][FrontendNext]_vars

---------------------------------------------------------------------------
(* The event loop of an interactive session: clients send requests without *)
(* waiting (http_get_async, http_post_async of http_utils.py), the loop    *)
(* runs the handlers and the provide calls.  A handler, and a provide      *)
(* call, reads the state when it starts and writes when it completes.      *)

MaxCallbacks == 3     \* requests sent and provide calls started in a run

Started(L) == Len(L.pending) + Len(L.handling) + Len(L.providing) + Len(L.completed)

\* HTTPRequest(url=url, method='GET') and HTTPRequest(url=url, method='POST', body=body)
HTTPRequest(method, form) == [method |-> method, form |-> form]

\* What the clients of a session send.
LoopRequests(U) ==
    {HTTPRequest("GET", <<>>), HTTPRequest("POST", <<>>)}
    \cup {HTTPRequest("POST", <<e>>) :
            e \in {f \in FormEntries(U) :
                      f.name_template \in {<<"nopieces">>, <<"field['name']">>}}}

\* _http_fetch: the request is on its way; the client does not wait
HttpFetchAsync(request) ==
    /\ ui.listening
    /\ Started(loop) < MaxCallbacks
    /\ loop' = [loop EXCEPT !.pending = Append(@, request)]
    /\ UNCHANGED <<reqVars, envVars, pipe, ui, world, project, cli, fake_frontend>>

\* the loop accepts the oldest request: its handler starts
Accept ==
    /\ ui.listening
    /\ loop.pending # <<>>
    /\ Idle(loop)
    /\ loop' = [loop EXCEPT !.pending = Tail(@),
                            !.handling = Append(@, [request |-> Head(loop.pending),
                                                    ui |-> ui, environ |-> environ])]
    /\ UNCHANGED <<reqVars, envVars, pipe, ui, world, project, cli, fake_frontend>>

\* what a handler that started in (U, env) leaves when it completes
handle(request, U, env) ==
    IF request.method = "GET"
    THEN [ui |-> get(U), environ |-> env]
    ELSE post(U, env, request.form)

\* the k-th handler in progress completes
Complete(k) ==
    /\ k \in 1..Len(loop.handling)
    /\ ui' = handle(loop.handling[k].request, loop.handling[k].ui,
                    loop.handling[k].environ).ui
    /\ environ' = handle(loop.handling[k].request, loop.handling[k].ui,
                         loop.handling[k].environ).environ
    /\ loop' = [loop EXCEPT
                  !.handling = SubSeq(@, 1, k - 1) \o SubSeq(@, k + 1, Len(@)),
                  !.completed = Append(@, loop.handling[k].request.method)]
    /\ UNCHANGED <<reqVars, os_environ, statuses, calls, raised, pipe, world, project, cli,
                   fake_frontend>>

\* provider p is called for the session's requirement, which is unmet
BeginProvide(p) ==
    /\ Started(loop) < MaxCallbacks
    /\ Idle(loop)
    /\ ~check_status(heap, req, environ).ret.has_been_provided
    /\ p \in {check_status(heap, req, environ).ret.possible_providers[i] :
                i \in 1..Len(check_status(heap, req, environ).ret.possible_providers)}
    /\ loop' = [loop EXCEPT !.providing = Append(@, [provider |-> p, env_var |-> req.env_var,
                                                     environ |-> environ])]
    /\ UNCHANGED <<reqVars, envVars, pipe, ui, world, project, cli, fake_frontend>>

\* the k-th provide call in progress returns
EndProvide(k) ==
    /\ k \in 1..Len(loop.providing)
    /\ environ' = provide(loop.providing[k].provider, req, loop.providing[k].environ,
                          pipe.behaviour[loop.providing[k].provider]).environ
    /\ loop' = [loop EXCEPT
                  !.providing = SubSeq(@, 1, k - 1) \o SubSeq(@, k + 1, Len(@)),
                  !.completed = Append(@, "provide")]
    /\ UNCHANGED <<reqVars, os_environ, statuses, calls, raised, pipe, ui, world, project, cli,
                   fake_frontend>>

LoopInit ==
    /\ InitReq({FOO}, {NoOptions}, {<<"env1", "env2">>})
    /\ InitEnv({<<>>})
    /\ pipe \in {Pipeline("Do Nothing", "batch", <<FOO>>, b) : b \in Behaviours}
    /\ ui = UIServer([i \in 1..Len(pipe.requirements) |->
                         check_status(heap, pipe.requirements[i], environ).ret])
    /\ world = NoWorld /\ project = NoProject /\ cli = NoCli /\ Quiet

LoopNext ==
    \/ \E request \in LoopRequests(ui) : HttpFetchAsync(request)
    \/ Accept
    \/ \E k \in 1..MaxCallbacks : Complete(k)
    \/ \E p \in ProviderObjs : BeginProvide(p)
    \/ \E k \in 1..MaxCallbacks : EndProvide(k)

LoopSpec == LoopInit /\ [][LoopNext]_vars

---------------------------------------------------------------------------
(* What the claims are stated with.                                        *)

\* The requirement is satisfied in env: the variable is there and not empty.
Provided(self, env) == self.env_var \in DOMAIN env /\ env[self.env_var] # ""

Without(env, k) == [x \in DOMAIN env \ {k} |-> env[x]]

SameStatus(a, b) ==
    /\ a.has_been_provided = b.has_been_provided
    /\ a.status_description = b.status_description
    /\ a.possible_providers = b.possible_providers

EmptyIn(self, env) == self.env_var \in DOMAIN env /\ env[self.env_var] = ""

\* C3: a status computed from an environ that maps env_var to "" is not
\* provided and equals the status computed from the same environ without
\* env_var; a status is provided exactly when env_var maps to a non-empty
\* string.
C3_EmptyIsUnset ==
    \A i \in 1..Len(statuses) :
        /\ statuses[i].has_been_provided <=> Provided(req, calls[i].environ)
        /\ EmptyIn(req, calls[i].environ) =>
               /\ ~statuses[i].has_been_provided
               /\ \A j \in 1..Len(statuses) :
                      calls[j].environ = Without(calls[i].environ, req.env_var)
                          => SameStatus(statuses[i], statuses[j])

C3_Witness ==
    \E i, j \in 1..Len(statuses) :
        /\ EmptyIn(req, calls[i].environ)
        /\ calls[j].environ = Without(calls[i].environ, req.env_var)
        /\ BAR \in DOMAIN calls[i].environ

\* The suffix rule of the specification, stated on the name alone.
ReservedSuffixes ==
    {<<"_", "PASSWORD">>, <<"_", "ENCRYPTED">>, <<"_", "SECRET", "_", "KEY">>,
     <<"_", "SECRET">>}

HasReservedSuffix(name) ==
    \E n \in 0..Len(name), suffix \in ReservedSuffixes :
        name = SubSeq(name, 1, n) \o suffix

\* Truth value of a deep value.
DeepTruthy(d) ==
    CASE d.tag = "none" -> FALSE
      [] d.tag = "bool" -> d.val = "True"
      [] d.tag = "str"  -> d.val # ""
      [] d.tag = "int"  -> d.val # "0"
      [] d.tag = "dict" -> DOMAIN d.items # {}

DeclaredEncrypted ==
    \/ /\ "encrypted" \in DOMAIN optionsAtInit.options
       /\ DeepTruthy(optionsAtInit.options["encrypted"])
    \/ /\ "encrypted" \notin DOMAIN optionsAtInit.options
       /\ HasReservedSuffix(req.env_var)

\* C4 as claimed: encrypted is the boolean True exactly when the option is
\* set truthy or (the option is absent and the name has a reserved suffix),
\* and is a boolean for every option value and name.
C4_AsClaimed ==
    /\ IsPyBool(encrypted(heap, req))
    /\ encrypted(heap, req) = PyTrue <=> DeclaredEncrypted

\* C4 (amended): encrypted is truthy exactly when the option is set truthy or
\* (the option is absent and the name has a reserved suffix); when the option
\* is present the result is the option's own value, so it is a boolean when
\* the option is absent or is itself a boolean.
C4_EncryptedTruthiness ==
    LET e == encrypted(heap, req)
    IN  /\ Truthy(heap, e) <=> DeclaredEncrypted
        /\ "encrypted" \in DOMAIN optionsAtInit.options
               => Deep(heap, e) = optionsAtInit.options["encrypted"]
        /\ ("encrypted" \notin DOMAIN optionsAtInit.options
               \/ optionsAtInit.options["encrypted"].tag = "bool") => IsPyBool(e)

C4_Witness ==
    /\ HasReservedSuffix(req.env_var)
    /\ "encrypted" \in DOMAIN optionsAtInit.options
    /\ optionsAtInit.options["encrypted"] = Deep(heap, PyInt("0"))
    /\ ~Truthy(heap, encrypted(heap, req))

\* C5: a call of check_status leaves environ as it found it, and two
\* statuses computed from equal environs are equal, whatever the process
\* environment was at the time of either call.
C5_CheckStatusReadsOnlyEnviron ==
    \A i \in 1..Len(statuses) :
        /\ calls[i].left = calls[i].environ
        /\ \A j \in 1..Len(statuses) :
               calls[i].environ = calls[j].environ => SameStatus(statuses[i], statuses[j])

C5_Witness ==
    \E i, j \in 1..Len(statuses) :
        /\ calls[i].environ = calls[j].environ
        /\ calls[i].os # calls[j].os
        /\ DOMAIN calls[i].environ = {BAR}
        /\ calls[i].via = "check_status" /\ calls[j].via = "check_status"

\* C6: a status returned by check_status or recheck says whether the
\* requirement is satisfied in the environ of that call, also when the
\* status rechecked was computed before environ changed; the statuses
\* obtained earlier stay as they were returned.
C6_RecheckIsFresh ==
    \A i \in 1..Len(statuses) :
        /\ statuses[i].has_been_provided = Provided(req, calls[i].environ)
        /\ statuses[i] = calls[i].ret
        /\ calls[i].via = "recheck" =>
               /\ calls[i].src < i
               /\ statuses[calls[i].src] = calls[calls[i].src].ret

C6_Witness ==
    \E i \in 1..Len(statuses) :
        /\ calls[i].via = "recheck"
        /\ statuses[calls[i].src].has_been_provided
        /\ ~statuses[i].has_been_provided
        /\ EmptyIn(req, calls[i].environ)

\* C7: the requirement's options are the value the caller passed at
\* construction whatever the caller does to its mapping afterwards; no dict
\* of the requirement is one the caller can reach; encrypted keeps its
\* value; options=None gives an empty mapping.
C7_OptionsNotAliased ==
    /\ DeepDict(heap, req.options) = optionsAtInit.options
    /\ Deep(heap, encrypted(heap, req)) = optionsAtInit.encrypted
    /\ optionsArg # PyNone =>
           Reach(heap, req.options) \cap Reach(heap, optionsArg[2]) = {}
    /\ optionsArg = PyNone => heap[req.options] = EmptyDict

C7_Witness ==
    /\ optionsArg # PyNone
    /\ "ownNested" \in DOMAIN heap
    /\ heap["ownNested"] # heap["callerNested"]
    /\ DeepDict(heap, optionsArg[2]) # optionsAtInit.options

\* C8: the possible_providers of every status hold no provider twice and are
\* the registered providers that match the requirement, in the order of
\* their first registration.
FirstIndex(xs, x) == CHOOSE i \in 1..Len(xs) : xs[i] = x /\ \A j \in 1..(i - 1) : xs[j] # x

C8_ProvidersDedupedInOrder ==
    \A i \in 1..Len(statuses) :
        LET pp == statuses[i].possible_providers
        IN  /\ \A a, b \in 1..Len(pp) : a # b => pp[a] # pp[b]
            /\ {pp[a] : a \in 1..Len(pp)} =
                   {registered[k] : k \in {x \in 1..Len(registered) : matches(registered[x], req)}}
            /\ \A a, b \in 1..Len(pp) :
                   a < b => FirstIndex(registered, pp[a]) < FirstIndex(registered, pp[b])

C8_Witness ==
    /\ registered = <<"env2", "env1", "env2">>
    /\ \E i, j \in 1..Len(statuses) :
           /\ statuses[i].has_been_provided
           /\ ~statuses[j].has_been_provided
           /\ statuses[i].possible_providers = <<"env2", "env1">>
           /\ statuses[j].possible_providers = <<"env2", "env1">>

---------------------------------------------------------------------------
(* The pipeline's claims.                                                  *)

Terminal == pipe.stage = "None" /\ pipe._result.kind \in {"PrepareSuccess", "PrepareFailure"}

AllHaveProviders ==
    \A i \in 1..Len(pipe.requirements) :
        find_providers_by_env_var(providers_of(pipe.requirements[i].registry),
                                  pipe.requirements[i],
                                  pipe.requirements[i].env_var) # <<>>

---------------------------------------------------------------------------
(* The interactive server's claims.                                        *)

Range(xs) == {xs[i] : i \in 1..Len(xs)}

ProviderNames == {ProviderClass(p) : p \in ProviderObjs}

\* <<n, k, id>>: field k of the n-th POST is named {id}.{provider}.value,
\* the GET before the POST rendered it, and the requirement with that id
\* is unmet when the POST arrives.
RoundTripFields ==
    {t \in (1..Len(ui.posts)) \X (1..2) \X {RequirementId(1), RequirementId(2)} :
        /\ t[2] <= Len(ui.posts[t[1]].form)
        /\ t[3] \in DOMAIN ui.posts[t[1]]._requirements_by_id
        /\ ui.posts[t[1]].form[t[2]].name \in Range(ui.posts[t[1]].fields)
        /\ \E provider_name \in ProviderNames :
              ui.posts[t[1]].form[t[2]].name = FieldName(t[3], provider_name, "value")
        /\ ~Provided(ui.posts[t[1]]._requirements_by_id[t[3]].requirement,
                     ui.posts[t[1]].environ_before)}

SubmittedValue(t) == ui.posts[t[1]].form[t[2]].value

RequirementOf(t) == ui.posts[t[1]]._requirements_by_id[t[3]].requirement

StoredVerbatim(t) ==
    /\ <<"variables", RequirementOf(t).env_var>> \in DOMAIN ui.posts[t[1]].local_state
    /\ ui.posts[t[1]].local_state[<<"variables", RequirementOf(t).env_var>>] = SubmittedValue(t)

\* The next check_status, against the environ the POST left.
ProvidedOnNextCheck(t) ==
    check_status(heap, RequirementOf(t), ui.posts[t[1]].environ).ret.has_been_provided

\* One completion event per POST, and the session's stage, once executed,
\* has the result PrepareSuccess.
SessionSucceeds ==
    /\ ui.events = [n \in 1..Len(ui.posts) |-> UIServerDoneEvent]
    /\ pipe.stage = "None" => pipe._result.kind = "PrepareSuccess"

\* C9 as the claim has it: any submitted value, the empty string included,
\* makes the requirement provided.
C9_AsClaimed ==
    \A t \in RoundTripFields :
        StoredVerbatim(t) /\ ProvidedOnNextCheck(t) /\ SessionSucceeds

\* C9: a value POSTed for a field that GET rendered for an unmet requirement
\* is stored verbatim in local state under ["variables", env_var]; the next
\* check_status reports the requirement provided exactly when the value is
\* not the empty string; the session ends with one completion event per POST
\* and with success.
C9_FormRoundTrip ==
    /\ \A t \in RoundTripFields :
          /\ StoredVerbatim(t)
          /\ ProvidedOnNextCheck(t) <=> SubmittedValue(t) # ""
    /\ SessionSucceeds

C9_Witness ==
    /\ \E t \in RoundTripFields :
          /\ SubmittedValue(t) = "bloop"
          /\ RequirementOf(t).env_var = FOO
          /\ ui.local_state[<<"variables", FOO>>] = "bloop"
          /\ ProvidedOnNextCheck(t)
    /\ ui.events = <<UIServerDoneEvent>>
    /\ ~ui.listening
    /\ Terminal /\ pipe._result.kind = "PrepareSuccess"

RECURSIVE Flatten(_)
Flatten(xss) == IF xss = <<>> THEN <<>> ELSE Head(xss) \o Flatten(Tail(xss))

NotEnoughPieces(parts) == [fmt |-> "not enough pieces in {parts}", arg |-> parts]

NotAKnownId(req_id) == [fmt |-> "{req_id} not a known requirement id", arg |-> req_id]

DidNotFindProvider(name) == [fmt |-> "did not find provider {name}", arg |-> name]

\* What posting a field made from a template has to log in POST p.
ExpectedErr(p, f) ==
    CASE f.name_template = <<"nopieces">> ->
            <<NotEnoughPieces(<<<<"nopieces">>>>)>>
      [] f.name_template = <<"a", ".", "b">> ->
            <<NotEnoughPieces(<<<<"a">>, <<"b">>>>)>>
      [] f.name_template \in {<<"badid", ".", "EnvVarProvider", ".", "value">>,
                              <<"badid", ".", "BadProvider", ".", "value">>} ->
            <<NotAKnownId(<<"badid">>)>>
      [] f.name_template = <<"%s", ".", "BadProvider", ".", "value">> ->
            <<DidNotFindProvider(<<"BadProvider">>)>>
      [] f.name_template = <<"%s", ".", "EnvVarProvider", ".", "value">> ->
            IF "EnvVarProvider" \in
                  {ProviderClass(q) :
                      q \in Range(p._requirements_by_id[f.req_id].possible_providers)}
            THEN <<>>
            ELSE <<DidNotFindProvider(<<"EnvVarProvider">>)>>
      [] f.name_template = <<"field['name']">> -> <<>>

\* C10: every POST is answered with 200 and a completion event, and logs for
\* each malformed field exactly one message, in the order of the fields:
\* too few pieces first, then an unknown requirement id (also when the
\* provider is unknown too), then an unknown provider.
C10_MalformedFieldsLogged ==
    /\ \A n \in 1..Len(ui.posts) :
          /\ ui.posts[n].code = 200
          /\ ui.posts[n].err =
                Flatten([k \in 1..Len(ui.posts[n].form) |->
                            ExpectedErr(ui.posts[n], ui.posts[n].form[k])])
    /\ ui.stderr = Flatten([n \in 1..Len(ui.posts) |-> ui.posts[n].err])
    /\ Len(ui.events) = Len(ui.posts)

C10_Witness ==
    \E n \in 1..Len(ui.posts) :
        /\ Len(ui.posts[n].form) = 2
        /\ ui.posts[n].form[1].name = <<"badid", ".", "BadProvider", ".", "value">>
        /\ ui.posts[n].form[2].name = <<"id1", ".", "BadProvider", ".", "value">>
        /\ ui.posts[n].err = <<NotAKnownId(<<"badid">>), DidNotFindProvider(<<"BadProvider">>)>>
        /\ ui.posts[n].code = 200
        /\ ui.posts[n].local_state = <<>>

\* C11: a GET emits no completion event, and every processed POST emits
\* exactly one UIServerDoneEvent, whatever its body holds; the handler has
\* received one event per POST, one after GET, one POST and unlisten.
C11_OneEventPerPost ==
    /\ [](ui.events = [n \in 1..Len(ui.posts) |-> UIServerDoneEvent])
    /\ [][ui'.posts # ui.posts
            => /\ ui'.events = Append(ui.events, UIServerDoneEvent)
               /\ Len(ui'.posts) = Len(ui.posts) + 1]_vars
    /\ [][ui'.posts = ui.posts => ui'.events = ui.events]_vars

C11_Witness ==
    /\ DOMAIN ui._requirements_by_id # {}
    /\ Len(ui.posts) = 1
    /\ Len(ui.posts[1].form) = 2
    /\ ui.posts[1].form[1].name = <<"nopieces">>
    /\ ui.posts[1].form[2].name \in Range(ui.posts[1].fields)
    /\ ui.events = <<UIServerDoneEvent>>
    /\ ~ui.listening

\* test_ui_server_empty: no requirement, and one POST without fields.
EmptyRun ==
    /\ pipe.requirements = <<>>
    /\ ui.statuses = <<>>
    /\ Len(ui.posts) = 1
    /\ ui.posts[1].form = <<>>

\* C12: with zero requirements, a run through the server (GET, then a POST
\* with an empty body) gives exactly one completion event and a
\* PrepareSuccess with empty logs; no PrepareFailure and no error string.
C12_EmptyRunSucceeds ==
    EmptyRun =>
        /\ ui.events = <<UIServerDoneEvent>>
        /\ ui.stderr = <<>>
        /\ ui.fields = <<>>
        /\ pipe.errors = <<>>
        /\ pipe._result.kind # "PrepareFailure"
        /\ pipe.stage = "None" =>
              /\ pipe._result.kind = "PrepareSuccess"
              /\ pipe._result.logs = <<>>
              /\ pipe._result.errors = <<>>

C12_Witness ==
    /\ EmptyRun
    /\ ~ui.listening
    /\ pipe.stage = "None"
    /\ pipe._result.kind = "PrepareSuccess"
    /\ pipe._result.logs = <<>>
    /\ ui.events = <<UIServerDoneEvent>>

---------------------------------------------------------------------------
(* The providers' claims.                                                  *)

ValueIn(env, k) == IF k \in DOMAIN env THEN <<env[k]>> ELSE <<>>

Starts(effects, k) ==
    Cardinality({n \in 1..Len(effects) : effects[n] = [effect |-> "start", env_var |-> k]})

\* C13: a provider called a second time, right after its first call, leaves
\* the requirement's variable with the value the first call left and does
\* nothing more outside the process, also when the requirement was already
\* satisfied before the first call; over any sequence of calls a service is
\* started at most once.
C13_ProvideIdempotent ==
    /\ \A n \in 2..Len(world.provides) :
          world.provides[n].provider = world.provides[n - 1].provider =>
              /\ ValueIn(world.provides[n].after, req.env_var)
                    = ValueIn(world.provides[n - 1].after, req.env_var)
              /\ world.provides[n].after = world.provides[n - 1].after
              /\ world.provides[n].effects = <<>>
    /\ Starts(world.effects, req.env_var) <= 1
    /\ Cardinality({n \in 1..Len(world.effects) : world.effects[n].effect = "fetch"}) <= 1

C13_Witness ==
    /\ Len(world.provides) = 3
    /\ \A n \in 1..3 : world.provides[n].provider = "svc1"
    /\ Provided(req, world.provides[1].before)
    /\ world.provides[1].effects # <<>>
    /\ Provided(req, world.provides[3].after)
    /\ Starts(world.effects, req.env_var) = 1

---------------------------------------------------------------------------
(* More of the pipeline's claims.                                          *)

CapableProviders(requirement) ==
    find_providers_by_env_var(providers_of(requirement.registry), requirement,
                              requirement.env_var)

\* The requirements that are unmet in env and have no capable provider.
Stranded(P, env) ==
    {i \in 1..Len(P.requirements) :
        /\ ~Provided(P.requirements[i], env)
        /\ CapableProviders(P.requirements[i]) = <<>>}

\* C14: when Computing status finds an unmet requirement without a capable
\* provider, the run fails on that step, the errors name exactly the unmet
\* requirements without a capable provider, no provider is invoked on the
\* step, and the failure is never turned into a success; without such a
\* requirement Computing status does not fail.
C14_NoProviderFails ==
    /\ [][pipe.stage = "Computing status" /\ Stranded(pipe, environ) # {}
            => /\ pipe'.stage = "None"
               /\ pipe'._result.kind = "PrepareFailure"
               /\ Len(pipe'._result.errors) = Cardinality(Stranded(pipe, environ))
               /\ {e.arg : e \in Range(pipe'._result.errors)}
                     = {title(pipe.requirements[i]) : i \in Stranded(pipe, environ)}
               /\ pipe'.invoked = pipe.invoked
               /\ environ' = environ]_vars
    /\ [][pipe.stage = "Computing status" /\ Stranded(pipe, environ) = {}
            => pipe'._result.kind # "PrepareFailure"]_vars
    /\ [][pipe._result.kind = "PrepareFailure" => pipe'._result = pipe._result]_vars

C14_Witness ==
    /\ pipe.stage = "None"
    /\ pipe._result.kind = "PrepareFailure"
    /\ pipe.steps = 2
    /\ Len(pipe.statuses) = 2
    /\ ~pipe.statuses[1].has_been_provided /\ pipe.statuses[1].possible_providers # <<>>
    /\ ~pipe.statuses[2].has_been_provided /\ pipe.statuses[2].possible_providers = <<>>
    /\ Len(pipe._result.errors) = 1
    /\ pipe._result.errors[1].arg = title(pipe.requirements[2])
    /\ pipe.invoked = <<>>

AllProvided(P, env) ==
    \A i \in 1..Len(P.requirements) : Provided(P.requirements[i], env)

\* The logs of the providers invoked so far, in the order of the invocations.
ExpectedLogs(P) ==
    Flatten([k \in 1..Len(P.invoked) |->
                IF P.behaviour[P.invoked[k][2]] = "ok"
                THEN <<[fmt |-> "{provider} provided {title}",
                        arg |-> <<P.invoked[k][2], title(P.requirements[P.invoked[k][1]])>>]>>
                ELSE <<>>])

IsPrefix(xs, ys) == Len(xs) <= Len(ys) /\ xs = SubSeq(ys, 1, Len(xs))

\* The errors of the provider attempts made so far, in the order of the
\* attempts.
ExpectedProviderErrors(P) ==
    Flatten([k \in 1..Len(P.invoked) |->
                IF P.behaviour[P.invoked[k][2]] = "error"
                THEN <<[fmt |-> "{provider} failed to provide {title}",
                        arg |-> <<P.invoked[k][2], title(P.requirements[P.invoked[k][1]])>>]>>
                ELSE <<>>])

\* C16: a PrepareFailure holds every error recorded during the run, in the
\* order recorded: the errors of all provider attempts, those followed by a
\* later candidate included, and then the requirements left unmet; no step
\* takes a recorded error away.
C16_NoErrorDropped ==
    /\ [](pipe._result.kind = "PrepareFailure"
            => /\ pipe._result.errors = pipe.errors
               /\ IsPrefix(ExpectedProviderErrors(pipe), pipe._result.errors)
               /\ \A k \in (Len(ExpectedProviderErrors(pipe)) + 1)..Len(pipe._result.errors) :
                     /\ pipe._result.errors[k].fmt
                           = "missing requirement to run this project: {title}"
                     /\ \E i \in 1..Len(pipe.requirements) :
                           /\ pipe._result.errors[k].arg = title(pipe.requirements[i])
                           /\ ~Provided(pipe.requirements[i], environ))
    /\ [](pipe.errors = ExpectedProviderErrors(pipe)
            \/ pipe._result.kind = "PrepareFailure")
    /\ [][IsPrefix(pipe.errors, pipe'.errors)]_vars

C16_Witness ==
    /\ pipe._result.kind = "PrepareFailure"
    /\ pipe.invoked = <<<<1, "env1">>, <<1, "env2">>>>
    /\ pipe.behaviour["env1"] = "error"
    /\ pipe.behaviour["env2"] = "empty"
    /\ Len(pipe._result.errors) = 2
    /\ pipe._result.errors[1].arg = <<"env1", title(pipe.requirements[1])>>
    /\ pipe._result.errors[2].arg = title(pipe.requirements[1])

---------------------------------------------------------------------------
(* More of the interactive server's claims.                                *)

\* C17: once unlisten was called the server handles no GET and no POST: it
\* emits no event and changes neither environ nor local_state nor anything
\* else of the session; unlisten can be called before a POST and after one,
\* and a server that stopped listening stays so.
C17_UnlistenReleases ==
    /\ [][~ui.listening => ui' = ui /\ environ' = environ]_vars
    /\ [](ui.listening => ENABLED Unlisten)
    /\ [](~ui.listening => ~ENABLED HttpGet /\ ~ENABLED HttpPost)
    /\ [][ui.listening /\ ~ui'.listening
            => /\ ui'.events = ui.events
               /\ ui'.local_state = ui.local_state
               /\ ui'.posts = ui.posts
               /\ environ' = environ]_vars

\* unlisten after a POST that was handled
C17_Witness ==
    /\ ~ui.listening
    /\ Len(ui.posts) = 1
    /\ ui.local_state # <<>>
    /\ pipe.stage = "None"

---------------------------------------------------------------------------
(* The project loader's claims.                                            *)

\* the mapping a declaration stands for: a type string is its own 'type'
DeclaredOptions(value) ==
    IF value.shape = "str" THEN ("type" :> PyStr(value.text)) ELSE value.items

\* every problem a declaration has
Defects(s) ==
    IF s.value.shape \notin {"str", "dict"} THEN {BadValueProblem(s.name)}
    ELSE (IF "type" \notin DOMAIN DeclaredOptions(s.value)
          THEN {NoTypeProblem(s.name)}
          ELSE IF DeclaredOptions(s.value)["type"][2] \notin KnownServiceTypes
          THEN {UnknownTypeProblem(s.name, DeclaredOptions(s.value)["type"][2])}
          ELSE {})
         \cup (IF /\ "default" \in DOMAIN DeclaredOptions(s.value)
                  /\ DeclaredOptions(s.value)["default"][1] = "list"
               THEN {BadDefaultProblem(s.name, DeclaredOptions(s.value)["default"])}
               ELSE {})

Malformed(s) == Defects(s) # {}

WellFormed(s) == Defects(s) = {}

---------------------------------------------------------------------------
(* The command line's claims.                                              *)

---------------------------------------------------------------------------
(* The claims about the order in which providers are tried.                *)

\* the providers invoked for requirement i, in the order of the invocations
RECURSIVE Attempts(_, _)
Attempts(invoked, i) ==
    IF invoked = <<>> THEN <<>>
    ELSE IF Head(invoked)[1] = i
         THEN <<Head(invoked)[2]>> \o Attempts(Tail(invoked), i)
         ELSE Attempts(Tail(invoked), i)

\* the candidates up to the first one that provides a value, that one
\* included; all of them when none does
RECURSIVE UpToFirstOk(_, _)
UpToFirstOk(behaviour, candidates) ==
    IF candidates = <<>> THEN <<>>
    ELSE IF behaviour[Head(candidates)] = "ok" THEN <<Head(candidates)>>
    ELSE <<Head(candidates)>> \o UpToFirstOk(behaviour, Tail(candidates))

\* C20: when providers are applied in batch mode, the providers invoked for
\* an unmet requirement are its possible_providers in order, from the first
\* one up to the first that satisfies the requirement and none after it;
\* the error of every failed attempt is recorded and the requirement stays
\* unmet after it; the stage fails exactly when some requirement is unmet
\* after all of its candidates were attempted; a requirement that was
\* provided has no provider invoked.
C20_CandidatesTriedInOrder ==
    [][pipe.stage = "ApplyingProviders" /\ pipe.mode = "batch"
        => /\ \A i \in 1..Len(pipe.requirements) :
                LET st == pipe.statuses[i]
                    tried == Attempts(pipe'.invoked, i)
                IN  /\ st.has_been_provided => tried = <<>>
                    /\ ~st.has_been_provided =>
                        /\ tried # <<>>
                        /\ tried[1] = st.possible_providers[1]
                        /\ tried = UpToFirstOk(pipe.behaviour, st.possible_providers)
                        /\ \A k \in 1..(Len(tried) - 1) : pipe.behaviour[tried[k]] # "ok"
                        /\ (\A k \in 1..Len(tried) : pipe.behaviour[tried[k]] # "ok")
                            => /\ ~Provided(pipe.requirements[i], environ')
                               /\ tried = st.possible_providers
                               /\ pipe'._result.kind = "PrepareFailure"
                        /\ (\A k \in 1..Len(tried) : pipe.behaviour[tried[k]] = "error")
                            => (pipe.requirements[i].env_var \in DOMAIN environ'
                                    <=> pipe.requirements[i].env_var \in DOMAIN environ)
           /\ pipe'.invoked
                = Flatten([i \in 1..Len(pipe.requirements) |->
                            [k \in 1..Len(Attempts(pipe'.invoked, i)) |->
                                <<i, Attempts(pipe'.invoked, i)[k]>>]])
           /\ IsPrefix(pipe.errors \o ExpectedProviderErrors(pipe'), pipe'.errors)
           /\ pipe'._result.kind = "PrepareFailure"
                <=> \E i \in 1..Len(pipe.requirements) :
                        /\ ~pipe.statuses[i].has_been_provided
                        /\ Attempts(pipe'.invoked, i) = pipe.statuses[i].possible_providers
                        /\ \A k \in 1..Len(pipe.statuses[i].possible_providers) :
                                pipe.behaviour[pipe.statuses[i].possible_providers[k]] # "ok"]_vars

C20_Witness ==
    /\ pipe.mode = "batch"
    /\ pipe.last.next = "Computing status"
    /\ Len(pipe.requirements) = 1
    /\ Len(pipe.statuses) = 1
    /\ pipe.statuses[1].possible_providers = <<"env1", "env2">>
    /\ pipe.behaviour["env1"] = "error"
    /\ pipe.behaviour["env2"] = "ok"
    /\ pipe.invoked = <<<<1, "env1">>, <<1, "env2">>>>
    /\ Len(pipe.errors) = 1
    /\ Provided(pipe.requirements[1], environ)

---------------------------------------------------------------------------
(* The claim about a requirement without a registry.                       *)

\* C23: check_status on a requirement whose registry is None raises, in
\* every environ, the one in which the variable is set included: no status
\* is ever returned for it, neither a provided nor a not provided one, and
\* every call made so far ended in the exception and left environ alone.
C23_MissingRegistryRaises ==
    req.registry = "None" =>
        /\ check_status(heap, req, environ).raised = "AttributeError"
        /\ statuses = <<>>
        /\ calls = <<>>
        /\ \A k \in 1..Len(raised) :
              /\ raised[k].exception = "AttributeError"
              /\ raised[k].left = raised[k].environ

C23_Witness ==
    /\ req.registry = "None"
    /\ Len(raised) = 2
    /\ req.env_var \notin DOMAIN raised[1].environ
    /\ req.env_var \in DOMAIN raised[2].environ
    /\ raised[2].environ[req.env_var] = "bloop"
    /\ statuses = <<>>

---------------------------------------------------------------------------
(* The claim about the values of encrypted variables.                      *)

\* the variable has a value that is not the empty string
SetIn(r, env) == r.env_var \in DOMAIN env /\ env[r.env_var] # ""

\* C25: for a requirement whose encrypted flag is truthy, statuses computed
\* from environs that differ only in the non-empty value of env_var have the
\* same status_description, and that description holds no value; for a
\* requirement that is not encrypted, the description of a provided status
\* holds the value the variable had in the environ of the call.
C25_EncryptedValueNotShown ==
    \A i \in 1..Len(statuses) :
        /\ Truthy(heap, encrypted(heap, req)) =>
            /\ statuses[i].status_description.value = <<>>
            /\ \A j \in 1..Len(statuses) :
                  (/\ SetIn(req, calls[i].environ)
                   /\ SetIn(req, calls[j].environ)
                   /\ Without(calls[i].environ, req.env_var)
                        = Without(calls[j].environ, req.env_var))
                  => statuses[i].status_description = statuses[j].status_description
        /\ (~Truthy(heap, encrypted(heap, req)) /\ statuses[i].has_been_provided) =>
            /\ SetIn(req, calls[i].environ)
            /\ statuses[i].status_description.value
                 = <<PyStr(calls[i].environ[req.env_var])>>

C25_Witness ==
    /\ Truthy(heap, encrypted(heap, req))
    /\ Len(statuses) = 2
    /\ SetIn(req, calls[1].environ)
    /\ SetIn(req, calls[2].environ)
    /\ calls[1].environ[req.env_var] # calls[2].environ[req.env_var]
    /\ Without(calls[1].environ, req.env_var) = Without(calls[2].environ, req.env_var)
    /\ statuses[1].has_been_provided
    /\ statuses[1].status_description = statuses[2].status_description

---------------------------------------------------------------------------
(* The frontend's claims.                                                  *)

\* the positions of the newlines of a text
Newlines(text) == {i \in 1..Len(text) : text[i] = LF}

\* the position of the k-th newline; 0 for k = 0
NthNewline(text, k) ==
    IF k = 0 THEN 0
    ELSE CHOOSE i \in Newlines(text) : Cardinality({j \in Newlines(text) : j <= i}) = k

WithoutTrailingCR(line) ==
    IF line # <<>> /\ line[Len(line)] = CR THEN SubSeq(line, 1, Len(line) - 1) ELSE line

\* the newline-terminated segments of a text, in order
Segments(text) ==
    [k \in 1..Cardinality(Newlines(text)) |->
        WithoutTrailingCR(SubSeq(text, NthNewline(text, k - 1) + 1, NthNewline(text, k) - 1))]

\* the text after the last newline
AfterLastNewline(text) ==
    SubSeq(text, NthNewline(text, Cardinality(Newlines(text))) + 1, Len(text))

Occurs(c, lines, buf) ==
    \/ \E k \in 1..Len(lines) : \E i \in 1..Len(lines[k]) : lines[k][i] = c
    \/ \E i \in 1..Len(buf) : buf[i] = c

\* C24: after any sequence of partial_info and partial_error calls the lines
\* of a channel are the newline-terminated segments of all the text passed
\* to it, in order, an empty segment as an empty line and a '\r\n' ending
\* without its carriage return; the channel's buffer is the text after the
\* last newline; nothing passed to one channel shows in the other.
C24_PartialMessagesBuffered ==
    /\ fake_frontend.logs = Segments(fake_frontend.info_passed)
    /\ fake_frontend._info_buf = AfterLastNewline(fake_frontend.info_passed)
    /\ fake_frontend.errors = Segments(fake_frontend.error_passed)
    /\ fake_frontend._error_buf = AfterLastNewline(fake_frontend.error_passed)
    /\ ~Occurs("1", fake_frontend.logs, fake_frontend._info_buf)
    /\ ~Occurs("a", fake_frontend.errors, fake_frontend._error_buf)

C24_Witness ==
    /\ fake_frontend.info_passed = <<"a", CR, LF, "a">>
    /\ fake_frontend.logs = <<<<"a">>>>
    /\ fake_frontend._info_buf = <<"a">>
    /\ fake_frontend.error_passed = <<>>

---------------------------------------------------------------------------
(* The claim about fields that fail validation.                            *)

\* the pieces of a field's name pass validation: at least three, a known
\* requirement id, the name of one of the requirement's providers
PassesValidation(by_id, name) ==
    /\ Len(split(name)) >= 3
    /\ split(name)[1] \in DOMAIN by_id
    /\ \E p \in Range(by_id[split(name)[1]].possible_providers) :
          <<ProviderClass(p)>> = split(name)[2]

\* the variable a valid field is for
VariableOf(by_id, name) == by_id[split(name)[1]].requirement.env_var

\* what env becomes when the valid fields of a form, and only those, are
\* applied in order
RECURSIVE ApplyValid(_, _, _)
ApplyValid(by_id, env, form) ==
    IF form = <<>> THEN env
    ELSE ApplyValid(by_id,
                    IF PassesValidation(by_id, Head(form).name)
                    THEN (VariableOf(by_id, Head(form).name) :> Head(form).value) @@ env
                    ELSE env,
                    Tail(form))

RECURSIVE ApplyValidLocal(_, _, _)
ApplyValidLocal(by_id, state, form) ==
    IF form = <<>> THEN state
    ELSE ApplyValidLocal(by_id,
                    IF PassesValidation(by_id, Head(form).name)
                    THEN (<<"variables", VariableOf(by_id, Head(form).name)>> :> Head(form).value)
                            @@ state
                    ELSE state,
                    Tail(form))

\* the form of the POST that a step handles
Posted == ui'.posts[Len(ui'.posts)].form

\* a template that, filled with a known id, names a field of a provider
\* the requirement has
NamesAField(entry) ==
    /\ entry.name_template = <<"%s", ".", "EnvVarProvider", ".", "value">>
    /\ entry.req_id \in DOMAIN ui._requirements_by_id
    /\ \E p \in Range(ui._requirements_by_id[entry.req_id].possible_providers) :
          ProviderClass(p) = "EnvVarProvider"

\* C22: a POST leaves environ and local_state as the fields that pass
\* validation, applied in order, make them: a field with too few pieces, an
\* unknown requirement id or an unknown provider name changes neither, nor
\* the status of any requirement, and the valid fields of the same POST are
\* applied all the same.
C22_InvalidFieldsIgnored ==
    [][Len(ui'.posts) = Len(ui.posts) + 1
        => /\ environ' = ApplyValid(ui._requirements_by_id, environ, Posted)
           /\ ui'.local_state = ApplyValidLocal(ui._requirements_by_id, ui.local_state, Posted)
           /\ ui'.statuses = ui.statuses
           /\ (\A k \in 1..Len(Posted) :
                    ~PassesValidation(ui._requirements_by_id, Posted[k].name))
                => /\ environ' = environ
                   /\ ui'.local_state = ui.local_state
                   /\ \A i \in 1..Len(pipe.requirements) :
                         check_status(heap, pipe.requirements[i], environ').ret
                            = check_status(heap, pipe.requirements[i], environ).ret
           /\ \A k \in 1..Len(Posted) :
                 (NamesAField(Posted[k]) \/ Posted[k].name \in Range(ui.fields))
                    => /\ PassesValidation(ui._requirements_by_id, Posted[k].name)
                       /\ (\A m \in (k + 1)..Len(Posted) :
                              ~PassesValidation(ui._requirements_by_id, Posted[m].name))
                            => environ'[VariableOf(ui._requirements_by_id, Posted[k].name)]
                                    = Posted[k].value]_vars

C22_Witness ==
    /\ Len(ui.posts) = 1
    /\ Len(ui.posts[1].form) = 2
    /\ ui.posts[1].form[1].name = <<"id1", ".", "BadProvider", ".", "value">>
    /\ ui.posts[1].form[2].name = <<"id1", ".", "EnvVarProvider", ".", "value">>
    /\ ui.posts[1].err = <<[fmt |-> "did not find provider {name}", arg |-> <<"BadProvider">>]>>
    /\ FOO \notin DOMAIN ui.posts[1].environ_before
    /\ environ = (FOO :> "bloop")
    /\ ui.local_state = (<<"variables", FOO>> :> "bloop")

---------------------------------------------------------------------------
(* The event loop's claim.                                                 *)

\* a handler, or a provide call, starts in this step
Starts_Handler == Len(loop'.handling) > Len(loop.handling)

Starts_Provide == Len(loop'.providing) > Len(loop.providing)

\* the one handler, or provide call, in progress completes in this step
Ends_Handler == Len(loop.handling) = 1 /\ loop'.handling = <<>>

Ends_Provide == Len(loop.providing) = 1 /\ loop'.providing = <<>>

\* C21: at most one handler or provide call is in progress at any time; a
\* handler is accepted, and a provider is called, only when nothing is in
\* progress, also while further requests wait; so no two provide calls for
\* one variable are in progress together, and what a handler or a provide
\* call writes when it completes is what it makes of the state as it is
\* then: nothing was written by another in between.
C21_OneMutatorInFlight ==
    /\ [](Len(loop.handling) + Len(loop.providing) <= 1)
    /\ [](\A i, j \in 1..Len(loop.providing) :
            loop.providing[i].env_var = loop.providing[j].env_var => i = j)
    /\ [][Starts_Handler \/ Starts_Provide
            => loop.handling = <<>> /\ loop.providing = <<>>]_vars
    /\ [][Ends_Handler
            => /\ loop.handling[1].environ = environ
               /\ loop.handling[1].ui = ui
               /\ ui' = handle(loop.handling[1].request, ui, environ).ui
               /\ environ' = handle(loop.handling[1].request, ui, environ).environ]_vars
    /\ [][Ends_Provide
            => /\ loop.providing[1].environ = environ
               /\ environ' = provide(loop.providing[1].provider, req, environ,
                                     pipe.behaviour[loop.providing[1].provider]).environ]_vars

C21_Witness ==
    /\ loop.completed = <<"provide">>
    /\ Len(loop.handling) = 1
    /\ loop.handling[1].request.method = "POST"
    /\ Len(loop.pending) = 1
    /\ loop.providing = <<>>

====
